---- MODULE Spec2Model ----
(***************************************************************************)
(* A model of ufoLib2's persistence subsystem: the lazy DataStore of       *)
(* objects/misc.py (used for the font's data and image stores) and         *)
(* Font.open / Font.read / Font.write / Font.save of objects/font.py.      *)
(* The file system is a map from locations to containers; the reader and   *)
(* the writer of fontTools act on it one call at a time, and every call    *)
(* that touches the file system may raise.                                 *)
(***************************************************************************)
EXTENDS Integers, Sequences, FiniteSets, TLC

VARIABLES
    disk,    \* the file system: location -> container
    font,    \* the Font object: _path, _reader, scalars, layers
    stores,  \* font.data and font.images: store name -> DataStore
    sv,      \* the frame of the running (or last) Font.save call
    tmpdir,  \* whether the temporary directory of Font.save exists
    pre,     \* disk, font and stores as they were when that call began
    res,     \* how the last Font.save call ended
    origin,  \* whether the font was opened from, or saved to, a path
    revived, \* the <<store, key>> deleted and then set again since the last flush
    ops,     \* number of calls made on the font so far
    lz,      \* a lazily and an eagerly read store, driven by the same calls
    glyph,   \* a Glyph object, with the last call made on it
    ds,      \* one DataStore with its reader and writer, and its calls on them
    rd       \* the frame of the running (or last) Font.open call, with its reader

vars == <<disk, font, stores, sv, tmpdir, pre, res, origin, revived, ops, lz, glyph, ds,
          rd>>

(***************************************************************************)
(* Bounds and value spaces                                                 *)
(***************************************************************************)
MaxOps == 4

NOT_LOADED == -1
NoFile == 0

Payloads == {1, 2}
Values == {0, 1, 2}

\* ufoLib2.constants.DEFAULT_LAYER_NAME
DEFAULT_LAYER_NAME == "public.default"

LayerNames == {DEFAULT_LAYER_NAME, "fg"}

StoreNames == {"data", "images"}
StoreOrder == <<"data", "images">>
KeyOrder == [data |-> <<"a", "b">>, images |-> <<"i">>]

ScalarOrder == <<"features", "groups", "info", "kerning", "lib">>
ScalarNames == {"features", "groups", "info", "kerning", "lib"}

\* fontTools.ufoLib.UFOFileStructure: the members of the enumeration
Structures == {"ZIP", "PACKAGE"}

\* what a caller passes as `structure`: nothing, a member's value, a member,
\* and a value that names no member
StructureArgs == {"None", "zip", "PACKAGE", "dir"}

PathArgs == {"P", "P/", "Q"}
OpenPaths == {"P", "Q"}
StagePaths == {"tmp/P", "tmp/Q"}
Locs == {"P", "Q", "tmp"}

Range(s) == {s[i] : i \in 1..Len(s)}

KeysOf(sn) == Range(KeyOrder[sn])

(***************************************************************************)
(* Paths                                                                   *)
(***************************************************************************)
\* os.path.normpath on the path strings of the model: a trailing slash goes
NormPath(p) == IF p = "P/" THEN "P" ELSE p

\* os.path.basename of a normalised path
BaseName(p) == p

\* tmp.getsyspath(name): the path of `name` inside the temporary directory
GetSysPath(name) == IF name = "P" THEN "tmp/P" ELSE "tmp/Q"

\* the location a path string names
Loc(p) == IF p \in StagePaths THEN "tmp" ELSE NormPath(p)

(***************************************************************************)
(* Containers on disk, and the reader's and writer's calls on them         *)
(***************************************************************************)
NoFiles == [sn \in StoreNames |-> [k \in KeysOf(sn) |-> NoFile]]

DefaultScalars == [n \in ScalarNames |-> 0]

\* LayerSet(): the name of the default layer and the names of the layers in
\* order; a new layer set holds one layer, the default one, under the
\* reserved name
DefaultLay == [default |-> DEFAULT_LAYER_NAME, order |-> <<DEFAULT_LAYER_NAME>>]

Absent ==
    [exists |-> FALSE, structure |-> "None", scal |-> DefaultScalars, layers |-> 0,
     lay |-> DefaultLay, files |-> NoFiles]

\* a container as UFOWriter creates it when it is given no structure: a package
EmptyContainer ==
    [exists |-> TRUE, structure |-> "PACKAGE", scal |-> DefaultScalars, layers |-> 0,
     lay |-> DefaultLay, files |-> NoFiles]

Exists(d, p) == d[Loc(p)].exists

\* UFOWriter(path, structure): a container at path of another structure than
\* the one asked for is refused (UFOLibError)
WriterAccepts(d, p, structure) ==
    ~Exists(d, p) \/ structure = "None" \/ d[Loc(p)].structure = structure

\* UFOWriter(path, structure): opens the container at path, creating it, in
\* the structure asked for, when there is none
WriterOpen(d, p, structure) ==
    IF Exists(d, p) THEN d
    ELSE [d EXCEPT ![Loc(p)] =
             [EmptyContainer EXCEPT !.structure = IF structure = "None" THEN @ ELSE structure]]

\* reader.fileStructure
FileStructure(d, rp) == d[Loc(rp)].structure

\* writer.writeFeatures / writeGroups / writeInfo / writeKerning / writeLib
WriteScalar(d, p, name, val) == [d EXCEPT ![Loc(p)].scal[name] = val]

\* LayerSet.write(writer, saveAs)
WriteLayers(d, p, val, lay) == [d EXCEPT ![Loc(p)].layers = val, ![Loc(p)].lay = lay]

\* writef(writer, fileName, data)
WriteFile(d, p, sn, k, v) == [d EXCEPT ![Loc(p)].files[sn][k] = v]

\* deletef(writer, fileName)
DeleteFile(d, p, sn, k) == [d EXCEPT ![Loc(p)].files[sn][k] = NoFile]

\* listdir(reader): the keys of the store's files, in the container's order
ListDir(c, sn) == SelectSeq(KeyOrder[sn], LAMBDA k : c.files[sn][k] # NoFile)

\* readf(reader, fileName): the payload, or NoFile when the read raises
ReadFile(d, rp, sn, k) ==
    IF Exists(d, rp) THEN d[Loc(rp)].files[sn][k] ELSE NoFile

(***************************************************************************)
(* Python dict, as the insertion-ordered sequence of its items             *)
(***************************************************************************)
DictKeys(dd) == [i \in 1..Len(dd) |-> dd[i].k]

DictHas(dd, key) == \E i \in 1..Len(dd) : dd[i].k = key

DictGet(dd, key) == dd[CHOOSE i \in 1..Len(dd) : dd[i].k = key].v

DictSet(dd, key, val) ==
    IF DictHas(dd, key)
    THEN [i \in 1..Len(dd) |-> IF dd[i].k = key THEN [k |-> key, v |-> val] ELSE dd[i]]
    ELSE Append(dd, [k |-> key, v |-> val])

DictDel(dd, key) == SelectSeq(dd, LAMBDA e : e.k # key)

(***************************************************************************)
(* DataStore (objects/misc.py)                                             *)
(***************************************************************************)
\* DataStore(): empty _data, empty _scheduledForDeletion, no reader attribute
NewStore == [data |-> <<>>, sched |-> {}, reader |-> "absent"]

\* DataStore.read(reader, lazy)
DS_read(d, rp, sn, lazy) ==
    LET names == ListDir(d[Loc(rp)], sn) IN
    [data   |-> [i \in 1..Len(names) |->
                    [k |-> names[i],
                     v |-> IF lazy THEN NOT_LOADED ELSE ReadFile(d, rp, sn, names[i])]],
     sched  |-> {},
     reader |-> IF lazy THEN rp ELSE "absent"]

\* DataStore.__len__
DS_len(st) == Len(st.data)

\* DataStore.__iter__ and DataStore.fileNames
DS_iter(st) == DictKeys(st.data)

\* a __getitem__ that returns what it found before the pull-through
DS_getitem_stale(st, d, sn, key, ioOk) ==
    LET cur == DictGet(st.data, key) IN
    IF cur # NOT_LOADED
    THEN [st |-> st, ret |-> cur, raised |-> FALSE, read |-> FALSE]
    ELSE LET val == IF st.reader = "absent" \/ ~ioOk
                    THEN NoFile
                    ELSE ReadFile(d, st.reader, sn, key) IN
         IF val = NoFile
         THEN [st |-> st, ret |-> NoFile, raised |-> TRUE, read |-> st.reader # "absent"]
         ELSE [st |-> [st EXCEPT !.data = DictSet(@, key, val)],
               ret |-> cur, raised |-> FALSE, read |-> TRUE]

\* a __getitem__ that returns what it pulled through and does not keep it
DS_getitem_uncached(st, d, sn, key, ioOk) ==
    LET cur == DictGet(st.data, key) IN
    IF cur # NOT_LOADED
    THEN [st |-> st, ret |-> cur, raised |-> FALSE, read |-> FALSE]
    ELSE LET val == IF st.reader = "absent" \/ ~ioOk
                    THEN NoFile
                    ELSE ReadFile(d, st.reader, sn, key) IN
         [st |-> st, ret |-> val, raised |-> val = NoFile, read |-> st.reader # "absent"]

\* a __getitem__ that goes to the reader whenever the store has one
DS_getitem_rereads(st, d, sn, key, ioOk) ==
    LET cur == DictGet(st.data, key) IN
    IF cur # NOT_LOADED /\ st.reader = "absent"
    THEN [st |-> st, ret |-> cur, raised |-> FALSE, read |-> FALSE]
    ELSE LET val == IF st.reader = "absent" \/ ~ioOk
                    THEN NoFile
                    ELSE ReadFile(d, st.reader, sn, key) IN
         IF val = NoFile
         THEN [st |-> st, ret |-> NoFile, raised |-> TRUE, read |-> st.reader # "absent"]
         ELSE [st |-> [st EXCEPT !.data = DictSet(@, key, val)],
               ret |-> val, raised |-> FALSE, read |-> TRUE]

\* DataStore.__getitem__ of a key the store holds: the store after the call,
\* the value returned, whether the call raised (the pull-through read
\* failed) and whether it called readf; ioOk is whether the reader's I/O
\* succeeds
DS_getitem(st, d, sn, key, ioOk) ==
    LET cur == DictGet(st.data, key) IN
    IF cur # NOT_LOADED
    THEN [st |-> st, ret |-> cur, raised |-> FALSE, read |-> FALSE]
    ELSE LET val == IF st.reader = "absent" \/ ~ioOk
                    THEN NoFile
                    ELSE ReadFile(d, st.reader, sn, key) IN
         IF val = NoFile
         THEN [st |-> st, ret |-> NoFile, raised |-> TRUE, read |-> st.reader # "absent"]
         ELSE [st |-> [st EXCEPT !.data = DictSet(@, key, val)],
               ret |-> val, raised |-> FALSE, read |-> TRUE]

\* a __setitem__ that leaves the key scheduled for deletion
DS_setitem_keepsPending(st, key, val) == [st EXCEPT !.data = DictSet(@, key, val)]

\* DataStore.__setitem__
DS_setitem(st, key, val) ==
    [st EXCEPT !.data = DictSet(@, key, val),
               !.sched = IF key \in @ THEN @ \ {key} ELSE @]

\* a __delitem__ that schedules the deletion before it looks the key up
DS_delitem_schedulesFirst(st, key) ==
    [st EXCEPT !.data = DictDel(@, key), !.sched = @ \cup {key}]

\* DataStore.__delitem__: `del self._data[fileName]` raises KeyError for a
\* key the store does not hold, and the store is left as it was
DS_delitem(st, key) ==
    IF ~DictHas(st.data, key) THEN st
    ELSE [st EXCEPT !.data = DictDel(@, key), !.sched = @ \cup {key}]

\* a write that hands the pending deletions to deletef on save-as too
DS_writeDeletes_always(st, saveAs) == st.sched

\* DataStore.write: the keys handed to deletef
DS_writeDeletes(st, saveAs) == IF ~saveAs THEN st.sched ELSE {}

\* a write that skips the entries that were never loaded
DS_writeKeys_loadedOnly(st) ==
    LET loaded == SelectSeq(st.data, LAMBDA e : e.v # NOT_LOADED) IN DictKeys(loaded)

\* DataStore.write: the keys whose items are handed to writef, in order
DS_writeKeys(st) == DictKeys(st.data)

\* a write that keeps the reference to the reader after a save-as
DS_writeEnd_keepsReader(st, saveAs) == [st EXCEPT !.sched = {}]

\* DataStore.write: what follows the two loops
DS_writeEnd(st, saveAs) ==
    [st EXCEPT !.sched = {},
               !.reader = IF saveAs /\ @ # "absent" THEN "absent" ELSE @]

(***************************************************************************)
(* Font (objects/font.py)                                                  *)
(***************************************************************************)
\* Font(): the attributes of a font built from defaults
NewFont ==
    [path   |-> "None",
     reader |-> "None",
     readerState |-> "none",
     fileStructure |-> "None",
     scal   |-> [features |-> [text |-> 0], groups |-> 0, info |-> 0,
                 kerning |-> 0, lib |-> 0],
     layers |-> 0,
     lay    |-> DefaultLay]

\* what Font.write hands to the writer for each font-level scalar
ScalarValue(f, name) ==
    IF name = "features" THEN f.scal.features.text ELSE f.scal[name]

\* Font.read(reader, lazy): the font-level attributes
FontRead(d, rp) ==
    LET c == d[Loc(rp)] IN
    [path   |-> "None",
     reader |-> "None",
     readerState |-> "none",
     fileStructure |-> "None",
     scal   |-> [features |-> [text |-> c.scal.features], groups |-> c.scal.groups,
                 info |-> c.scal.info, kerning |-> c.scal.kerning, lib |-> c.scal.lib],
     layers |-> c.layers,
     lay    |-> c.lay]

\* Font.read(reader, lazy): the data and image stores
StoresRead(d, rp, lazy) == [sn \in StoreNames |-> DS_read(d, rp, sn, lazy)]

\* Font.open(path, lazy)
FontOpen(d, p, lazy) ==
    [FontRead(d, p) EXCEPT !.path = p, !.fileStructure = FileStructure(d, p),
                           !.reader = IF lazy THEN p ELSE "None",
                           !.readerState = IF lazy THEN "open" ELSE "none"]

\* Font.close(): the reader the font keeps, if it keeps one, is closed
Font_close(f) ==
    IF f.reader # "None" THEN [f EXCEPT !.readerState = "closed"] ELSE f

\* the reader of the font's stores can be read from: it has not been closed
ReaderUsable(f) == f.readerState # "closed"

\* Font.path
FontPath(f) == f.path

\* LayerSet.newLayer(name): a layer of that name added last; the layer set
\* unchanged when the name is taken (the call raises)
LS_newLayer(lay, name) ==
    IF name \in Range(lay.order) THEN lay
    ELSE [lay EXCEPT !.order = Append(@, name)]

\* LayerSet.renameLayer(name, newName, overwrite): the layer keeps its place
\* and its role; an existing layer of the new name is replaced when overwrite
\* is set, and the call raises (the layer set unchanged) when it is not
LS_renameLayer(lay, name, newName, overwrite) ==
    IF name \notin Range(lay.order) \/ name = newName THEN lay
    ELSE IF newName \in Range(lay.order) /\ ~overwrite THEN lay
    ELSE LET kept == SelectSeq(lay.order, LAMBDA n : n # newName) IN
         [default |-> IF lay.default = name THEN newName ELSE lay.default,
          order   |-> [i \in 1..Len(kept) |-> IF kept[i] = name THEN newName ELSE kept[i]]]

\* a check that lets every layer naming through
DefaultLayerOK_lax(f) == TRUE

\* Font.write: the default layer is named with the reserved name, or no layer is
DefaultLayerOK(f) ==
    f.lay.default # DEFAULT_LAYER_NAME => DEFAULT_LAYER_NAME \notin Range(f.lay.order)

\* a version check that lets format version 2 through
FormatOK_lax(fv) == fv \in {2, 3}

\* Font.save: the format version check
FormatOK(fv) == fv = 3

\* UFOFileStructure(structure): the member of that value, the member itself,
\* and ValueError for a value that names none
UFOFileStructure(structure) ==
    IF structure \in {"zip", "ZIP"} THEN "ZIP"
    ELSE IF structure \in {"package", "PACKAGE"} THEN "PACKAGE"
    ELSE "ValueError"

\* a save in which the structure the font was opened with comes first
SaveStructure_remembered(f, structure) ==
    IF f.fileStructure # "None" THEN f.fileStructure
    ELSE IF structure # "None" THEN UFOFileStructure(structure)
    ELSE "None"

\* Font.save: the structure handed to the writer
SaveStructure(f, structure) ==
    IF structure # "None" THEN UFOFileStructure(structure)
    ELSE IF f.fileStructure # "None" THEN f.fileStructure
    ELSE "None"

\* Font.save: the path argument after __fspath__ and normpath
SavePathArg(arg) == IF arg = "None" THEN "None" ELSE NormPath(arg)

\* a save that writes straight onto an existing destination, unstaged, and
\* that takes an existing destination without being asked to overwrite
SaveDest_unstaged(f, arg, overwrite, d) ==
    LET p == SavePathArg(arg) IN
    IF p # "None"
    THEN [err |-> "none", saveAs |-> TRUE, overwritePath |-> "None",
          tmp |-> FALSE, path |-> p]
    ELSE IF FontPath(f) = "None"
         THEN [err |-> "TypeError", saveAs |-> FALSE, overwritePath |-> "None",
               tmp |-> FALSE, path |-> "None"]
         ELSE [err |-> "none", saveAs |-> FALSE, overwritePath |-> "None",
               tmp |-> FALSE, path |-> FontPath(f)]

\* a save that creates the temporary directory but binds the writer to the
\* destination itself
SaveDest_direct(f, arg, overwrite, d) ==
    LET p == SavePathArg(arg) IN
    IF p # "None" /\ Exists(d, p) /\ overwrite
    THEN [err |-> "none", saveAs |-> TRUE, overwritePath |-> p,
          tmp |-> TRUE, path |-> p]
    ELSE SaveDest_unstaged(f, arg, overwrite, d)

\* Font.save: the destination cases; err is the error raised ("none" when
\* there is none), path is what the writer is bound to
SaveDest(f, arg, overwrite, d) ==
    LET p == SavePathArg(arg)
        saveAs == p # "None" IN
    IF saveAs
    THEN IF Exists(d, p)
         THEN IF overwrite
              THEN [err |-> "none", saveAs |-> TRUE, overwritePath |-> p,
                    tmp |-> TRUE, path |-> GetSysPath(BaseName(p))]
              ELSE [err |-> "OSError", saveAs |-> TRUE, overwritePath |-> "None",
                    tmp |-> FALSE, path |-> p]
         ELSE [err |-> "none", saveAs |-> TRUE, overwritePath |-> "None",
               tmp |-> FALSE, path |-> p]
    ELSE IF FontPath(f) = "None"
         THEN [err |-> "TypeError", saveAs |-> FALSE, overwritePath |-> "None",
               tmp |-> FALSE, path |-> "None"]
         ELSE [err |-> "none", saveAs |-> FALSE, overwritePath |-> "None",
               tmp |-> FALSE, path |-> FontPath(f)]

\* Font.save: the error it raises before the try block, "none" when none
SaveReject(f, arg, fv, structure, overwrite, d) ==
    IF ~FormatOK(fv) THEN "NotImplementedError"
    ELSE IF SaveStructure(f, structure) = "ValueError" THEN "ValueError"
    ELSE SaveDest(f, arg, overwrite, d).err

(***************************************************************************)
(* The calls made on the font between saves                                *)
(***************************************************************************)
Idle == sv.pc = "idle"

\* the state a Font.save call starts from, kept for comparison
Snap(d, f, sts) == [disk |-> d, font |-> f, stores |-> sts]

\* the frame of Font.save before its first call
NoSave ==
    [pc |-> "idle", arg |-> "None", fv |-> 3, structureArg |-> "None",
     overwrite |-> FALSE, structure |-> "None",
     saveAs |-> FALSE, path |-> "None", overwritePath |-> "None",
     tmp |-> "None", writer |-> "None", exc |-> "none", at |-> "none",
     idx |-> 1, cur |-> 1, todoDel |-> {}, todoWrite |-> <<>>, log |-> <<>>,
     trace |-> <<>>]

\* a call the store made on the writer
Call(op, sn, key, val) == [op |-> op, sn |-> sn, k |-> key, v |-> val]

\* Font.open(path, lazy) on a path that holds a container
Open(p, lazy) ==
    /\ Idle /\ ops < MaxOps
    /\ Exists(disk, p)
    /\ font' = FontOpen(disk, p, lazy)
    /\ stores' = StoresRead(disk, p, lazy)
    /\ pre' = Snap(disk, font', stores')
    /\ origin' = TRUE
    /\ revived' = {}
    /\ ops' = ops + 1
    /\ UNCHANGED <<disk, sv, tmpdir, res, lz, glyph, ds, rd>>

\* font.data[key] / font.images[key]
Get(sn, key) ==
    /\ Idle /\ ops < MaxOps
    /\ DictHas(stores[sn].data, key)
    /\ \E ioOk \in BOOLEAN :
          stores' = [stores EXCEPT ![sn] =
                        DS_getitem(@, disk, sn, key, ioOk /\ ReaderUsable(font)).st]
    /\ stores' # stores
    /\ pre' = Snap(disk, font, stores')
    /\ ops' = ops + 1
    /\ UNCHANGED <<disk, font, sv, tmpdir, res, origin, revived, lz, glyph, ds, rd>>

\* font.data[key] = val / font.images[key] = val
Set(sn, key, val) ==
    /\ Idle /\ ops < MaxOps
    /\ stores' = [stores EXCEPT ![sn] = DS_setitem(@, key, val)]
    /\ stores' # stores
    /\ revived' = IF key \in stores[sn].sched THEN revived \cup {<<sn, key>>} ELSE revived
    /\ pre' = Snap(disk, font, stores')
    /\ ops' = ops + 1
    /\ UNCHANGED <<disk, font, sv, tmpdir, res, origin, lz, glyph, ds, rd>>

\* del font.data[key] / del font.images[key]
Del(sn, key) ==
    /\ Idle /\ ops < MaxOps
    /\ DictHas(stores[sn].data, key)
    /\ stores' = [stores EXCEPT ![sn] = DS_delitem(@, key)]
    /\ revived' = revived \ {<<sn, key>>}
    /\ pre' = Snap(disk, font, stores')
    /\ ops' = ops + 1
    /\ UNCHANGED <<disk, font, sv, tmpdir, res, origin, lz, glyph, ds, rd>>

\* font.close(), and leaving `with font:`
Close ==
    /\ Idle /\ ops < MaxOps
    /\ font' = Font_close(font)
    /\ pre' = Snap(disk, font', stores)
    /\ ops' = ops + 1
    /\ UNCHANGED <<disk, stores, sv, tmpdir, res, origin, revived, lz, glyph, ds, rd>>

\* the caller edits the font-level attributes and the layers
Edit(val) ==
    /\ Idle /\ ops < MaxOps
    /\ font' = [font EXCEPT
                  !.scal = [features |-> [text |-> val], groups |-> val,
                            info |-> val, kerning |-> val, lib |-> val],
                  !.layers = val]
    /\ font' # font
    /\ pre' = Snap(disk, font', stores)
    /\ ops' = ops + 1
    /\ UNCHANGED <<disk, stores, sv, tmpdir, res, origin, revived, lz, glyph, ds, rd>>

\* font.newLayer(name)
NewLayer(name) ==
    /\ Idle /\ ops < MaxOps
    /\ font' = [font EXCEPT !.lay = LS_newLayer(@, name)]
    /\ font' # font
    /\ pre' = Snap(disk, font', stores)
    /\ ops' = ops + 1
    /\ UNCHANGED <<disk, stores, sv, tmpdir, res, origin, revived, lz, glyph, ds, rd>>

\* font.renameLayer(name, newName, overwrite)
RenameLayer(name, newName, overwrite) ==
    /\ Idle /\ ops < MaxOps
    /\ font' = [font EXCEPT !.lay = LS_renameLayer(@, name, newName, overwrite)]
    /\ font' # font
    /\ pre' = Snap(disk, font', stores)
    /\ ops' = ops + 1
    /\ UNCHANGED <<disk, stores, sv, tmpdir, res, origin, revived, lz, glyph, ds, rd>>

(***************************************************************************)
(* Font.save, one call on the file system at a time                        *)
(***************************************************************************)
\* an exception raised at step `at`: control goes to the finally clause
Raise(f, at) ==
    [f EXCEPT !.exc = "IOError", !.at = at, !.pc = "finally",
              !.idx = 1, !.cur = 1, !.todoDel = {}, !.todoWrite = <<>>]

\* an exception raised inside the `with UFOWriter(...)` block closes the writer
RaiseInWith(f, at) == [Raise(f, at) EXCEPT !.writer = "closed"]

\* a Font.write that calls the flushes without the flag, so that each runs
\* with its default, saveAs=False
WriteSaveAs_omitted(f) == FALSE

\* Font.write: the saveAs flag it hands to layers.write, data.write and
\* images.write is the one it was given
WriteSaveAs(f) == f.saveAs

\* a call Font.write made: a write of a font-level attribute on the writer
ScalarCall(name) == [call |-> name]

\* a call Font.write made: the flush of the layers or of a store, with its flag
FlushCall(name, saveAs) == [call |-> name, saveAs |-> saveAs]

\* DataStore.write begins on store number i
EnterStore(f, i, sts) ==
    LET st == sts[StoreOrder[i]]
        dels == DS_writeDeletes(st, WriteSaveAs(f)) IN
    [f EXCEPT !.cur = i, !.todoDel = dels, !.todoWrite = DS_writeKeys(st),
              !.trace = Append(@, FlushCall(StoreOrder[i], WriteSaveAs(f))),
              !.pc = IF dels # {} THEN "del" ELSE "write"]

\* Font.save up to the try block (lines 233-268)
SaveBegin(arg, fv, structure, overwrite) ==
    /\ Idle /\ ops < MaxOps
    /\ LET rej == SaveReject(font, arg, fv, structure, overwrite, disk)
           dst == SaveDest(font, arg, overwrite, disk)
           call == [NoSave EXCEPT !.arg = arg, !.fv = fv, !.structureArg = structure,
                                  !.overwrite = overwrite]
       IN IF rej # "none"
          THEN /\ sv' = [call EXCEPT !.pc = "reject", !.exc = rej, !.at = "begin"]
               /\ tmpdir' = tmpdir
          ELSE /\ sv' = [call EXCEPT !.pc = "writer", !.saveAs = dst.saveAs,
                                     !.structure = SaveStructure(font, structure),
                                     !.path = dst.path,
                                     !.overwritePath = dst.overwritePath,
                                     !.tmp = IF dst.tmp THEN "open" ELSE "None"]
               /\ tmpdir' = (tmpdir \/ dst.tmp)
    /\ res' = "running"
    /\ pre' = Snap(disk, font, stores)
    /\ ops' = ops + 1
    /\ UNCHANGED <<disk, font, stores, origin, revived, lz, glyph, ds, rd>>

\* Font.save raises before its try block: the call ends
Reject ==
    /\ sv.pc = "reject"
    /\ sv' = NoSave
    /\ res' = sv.exc
    /\ UNCHANGED <<disk, font, stores, tmpdir, pre, origin, revived, ops, lz, glyph, ds, rd>>

\* UFOWriter(path, structure=structure, validate=validate), and Font.write up
\* to its first call on the writer: the default of saveAs and the assertion
\* on the layer names
WriterStep ==
    /\ sv.pc = "writer"
    /\ \E ok \in BOOLEAN :
          IF ~WriterAccepts(disk, sv.path, sv.structure)
          THEN /\ disk' = disk
               /\ sv' = [Raise(sv, "writer") EXCEPT !.exc = "UFOLibError"]
          ELSE IF ok
          THEN /\ disk' = WriterOpen(disk, sv.path, sv.structure)
               /\ sv' = IF DefaultLayerOK(font)
                        THEN [sv EXCEPT !.writer = "open", !.pc = "scal", !.idx = 1]
                        ELSE [RaiseInWith(sv, "write") EXCEPT !.exc = "AssertionError"]
          ELSE /\ disk' = disk
               /\ sv' = Raise(sv, "writer")
    /\ UNCHANGED <<font, stores, tmpdir, pre, res, origin, revived, ops, lz, glyph, ds, rd>>

\* Font.write: writeFeatures, writeGroups, writeInfo, writeKerning, writeLib
ScalarStep ==
    /\ sv.pc = "scal"
    /\ \E ok \in BOOLEAN :
          IF ok
          THEN /\ disk' = WriteScalar(disk, sv.path, ScalarOrder[sv.idx],
                                      ScalarValue(font, ScalarOrder[sv.idx]))
               /\ sv' = IF sv.idx < Len(ScalarOrder)
                        THEN [sv EXCEPT !.idx = @ + 1,
                                        !.trace = Append(@, ScalarCall(ScalarOrder[sv.idx]))]
                        ELSE [sv EXCEPT !.pc = "layers", !.idx = 1,
                                        !.trace = Append(@, ScalarCall(ScalarOrder[sv.idx]))]
          ELSE /\ disk' = disk
               /\ sv' = RaiseInWith(
                           [sv EXCEPT !.trace = Append(@, ScalarCall(ScalarOrder[sv.idx]))],
                           "write")
    /\ UNCHANGED <<font, stores, tmpdir, pre, res, origin, revived, ops, lz, glyph, ds, rd>>

\* Font.write: self.layers.write(writer, saveAs=saveAs)
LayersStep ==
    /\ sv.pc = "layers"
    /\ \E ok \in BOOLEAN :
          IF ok
          THEN /\ disk' = WriteLayers(disk, sv.path, font.layers, font.lay)
               /\ sv' = EnterStore(
                           [sv EXCEPT !.trace = Append(@, FlushCall("layers", WriteSaveAs(sv)))],
                           1, stores)
          ELSE /\ disk' = disk
               /\ sv' = RaiseInWith(
                           [sv EXCEPT !.trace = Append(@, FlushCall("layers", WriteSaveAs(sv)))],
                           "write")
    /\ UNCHANGED <<font, stores, tmpdir, pre, res, origin, revived, ops, lz, glyph, ds, rd>>

\* DataStore.write: one turn of the loop over _scheduledForDeletion
DeleteStep ==
    /\ sv.pc = "del"
    /\ \E key \in sv.todoDel, ok \in BOOLEAN :
          IF ok
          THEN /\ disk' = DeleteFile(disk, sv.path, StoreOrder[sv.cur], key)
               /\ sv' = [sv EXCEPT !.todoDel = @ \ {key},
                                   !.log = Append(@, Call("deletef", StoreOrder[sv.cur], key, NoFile)),
                                   !.pc = IF sv.todoDel = {key} THEN "write" ELSE "del"]
          ELSE /\ disk' = disk
               /\ sv' = RaiseInWith(
                           [sv EXCEPT !.log = Append(@, Call("deletef", StoreOrder[sv.cur], key, NoFile))],
                           "write")
    /\ UNCHANGED <<font, stores, tmpdir, pre, res, origin, revived, ops, lz, glyph, ds, rd>>

\* DataStore.write: one turn of the loop over self.items(): __getitem__
\* (pulling an unloaded entry through the reader), then writef
WriteStep ==
    /\ sv.pc = "write" /\ sv.todoWrite # <<>>
    /\ \E readOk \in BOOLEAN, ok \in BOOLEAN :
          LET sn  == StoreOrder[sv.cur]
              key == Head(sv.todoWrite)
              g   == DS_getitem(stores[sn], disk, sn, key, readOk /\ ReaderUsable(font)) IN
          /\ stores' = [stores EXCEPT ![sn] = g.st]
          /\ IF ~g.raised /\ ok
             THEN /\ disk' = WriteFile(disk, sv.path, sn, key, g.ret)
                  /\ sv' = [sv EXCEPT !.todoWrite = Tail(@),
                                      !.log = Append(@, Call("writef", sn, key, g.ret))]
             ELSE /\ disk' = disk
                  /\ sv' = RaiseInWith(
                              IF g.raised THEN sv
                              ELSE [sv EXCEPT !.log = Append(@, Call("writef", sn, key, g.ret))],
                              "write")
    /\ UNCHANGED <<font, tmpdir, pre, res, origin, revived, ops, lz, glyph, ds, rd>>

\* DataStore.write after the loops; then the next store, or the end of Font.write
StoreWriteEnd ==
    /\ sv.pc = "write" /\ sv.todoWrite = <<>>
    /\ LET sn == StoreOrder[sv.cur]
           sts == [stores EXCEPT ![sn] = DS_writeEnd(@, WriteSaveAs(sv))] IN
       /\ stores' = sts
       /\ sv' = IF sv.cur < Len(StoreOrder)
                THEN EnterStore(sv, sv.cur + 1, sts)
                ELSE [sv EXCEPT !.pc = "close", !.cur = 1]
    /\ revived' = {r \in revived : r[1] # StoreOrder[sv.cur]}
    /\ UNCHANGED <<disk, font, tmpdir, pre, res, origin, ops, lz, glyph, ds, rd>>

\* leaving the `with` block closes the writer; writer.setModificationTime()
CloseStep ==
    /\ sv.pc = "close"
    /\ \E ok \in BOOLEAN :
          sv' = IF ok
                THEN [sv EXCEPT !.writer = "closed",
                                !.pc = IF sv.overwritePath # "None"
                                       THEN "remove" ELSE "finally"]
                ELSE RaiseInWith(sv, "close")
    /\ UNCHANGED <<disk, font, stores, tmpdir, pre, res, origin, revived, ops, lz, glyph, ds, rd>>

\* shutil.rmtree(overwritePath) / os.remove(overwritePath)
RemoveExisting(d, p) == [d EXCEPT ![Loc(p)] = Absent]

\* shutil.move(path, overwritePath)
MoveStaged(d, from, to) ==
    [d EXCEPT ![Loc(to)] = d[Loc(from)], ![Loc(from)] = Absent]

RemoveStep ==
    /\ sv.pc = "remove"
    /\ \E ok \in BOOLEAN :
          IF ok
          THEN /\ disk' = RemoveExisting(disk, sv.overwritePath)
               /\ sv' = [sv EXCEPT !.pc = "move"]
          ELSE /\ disk' = disk
               /\ sv' = Raise(sv, "remove")
    /\ UNCHANGED <<font, stores, tmpdir, pre, res, origin, revived, ops, lz, glyph, ds, rd>>

\* a save that forgets `path = overwritePath` and keeps the staging path
FinalPath_staged(f) == f.path

\* the path Font.save remembers: `path = overwritePath` after the move
FinalPath(f) == f.overwritePath

MoveStep ==
    /\ sv.pc = "move"
    /\ \E ok \in BOOLEAN :
          IF ok
          THEN /\ disk' = MoveStaged(disk, sv.path, sv.overwritePath)
               /\ sv' = [sv EXCEPT !.path = FinalPath(sv), !.pc = "finally"]
          ELSE /\ disk' = disk
               /\ sv' = Raise(sv, "move")
    /\ UNCHANGED <<font, stores, tmpdir, pre, res, origin, revived, ops, lz, glyph, ds, rd>>

\* a close that leaves what the temporary directory holds
TmpClose_leaks(d) == d

\* tmp.close(): the temporary directory and all it holds are removed
TmpClose(d) == [d EXCEPT !["tmp"] = Absent]

\* the finally clause, then `self._path = path` unless an exception propagates
FinallyStep ==
    /\ sv.pc = "finally"
    /\ disk' = IF sv.tmp # "None" THEN TmpClose(disk) ELSE disk
    /\ tmpdir' = IF sv.tmp # "None" THEN FALSE ELSE tmpdir
    /\ sv' = NoSave
    /\ font' = IF sv.exc = "none" THEN [font EXCEPT !.path = sv.path] ELSE font
    /\ res' = IF sv.exc = "none" THEN "ok" ELSE sv.exc
    /\ origin' = (origin \/ sv.exc = "none")
    /\ pre' = Snap(disk', font', stores)
    /\ UNCHANGED <<stores, revived, ops, lz, glyph, ds, rd>>

(***************************************************************************)
(* The specification                                                       *)
(***************************************************************************)
\* the container the font is opened from
Source ==
    [exists |-> TRUE,
     structure |-> "PACKAGE",
     scal   |-> [n \in ScalarNames |-> 1],
     layers |-> 1,
     lay    |-> DefaultLay,
     files  |-> [data |-> [a |-> 1, b |-> 2], images |-> [i |-> 1]]]

NoLazy == [on |-> FALSE]

NoGlyph == [on |-> FALSE]

NoStore == [on |-> FALSE]

\* the frame of Font.open before its first call: no reader acquired
NoOpen ==
    [pc |-> "idle", path |-> "None", lazy |-> FALSE, idx |-> 1, handle |-> "none",
     exc |-> "none"]

Init ==
    /\ disk = [l \in Locs |-> IF l = "P" THEN Source ELSE Absent]
    /\ font = NewFont
    /\ stores = [sn \in StoreNames |-> NewStore]
    /\ sv = NoSave
    /\ tmpdir = FALSE
    /\ pre = Snap(disk, font, stores)
    /\ res = "none"
    /\ origin = FALSE
    /\ revived = {}
    /\ ops = 0
    /\ lz = NoLazy
    /\ glyph = NoGlyph
    /\ ds = NoStore
    /\ rd = NoOpen

Next ==
    \/ \E p \in OpenPaths, lazy \in BOOLEAN : Open(p, lazy)
    \/ \E sn \in StoreNames : \E key \in KeysOf(sn) : Get(sn, key)
    \/ \E sn \in StoreNames : \E key \in KeysOf(sn), val \in Payloads : Set(sn, key, val)
    \/ \E sn \in StoreNames : \E key \in KeysOf(sn) : Del(sn, key)
    \/ \E val \in Values : Edit(val)
    \/ \E arg \in PathArgs \cup {"None"}, fv \in {2, 3}, overwrite \in BOOLEAN :
          SaveBegin(arg, fv, "None", overwrite)
    \/ Reject
    \/ WriterStep
    \/ ScalarStep
    \/ LayersStep
    \/ DeleteStep
    \/ WriteStep
    \/ StoreWriteEnd
    \/ CloseStep
    \/ RemoveStep
    \/ MoveStep
    \/ FinallyStep

Spec == Init /\ [][Next]_vars

(***************************************************************************)
(* Views used to compare fonts and containers                              *)
(***************************************************************************)
\* the payload a store holds for a key, pulling an unloaded entry through the
\* store's reader; NoFile for a key the store does not hold
Payload(st, d, sn, key) ==
    IF ~DictHas(st.data, key) THEN NoFile
    ELSE IF DictGet(st.data, key) # NOT_LOADED THEN DictGet(st.data, key)
    ELSE IF st.reader = "absent" THEN NoFile
    ELSE ReadFile(d, st.reader, sn, key)

\* the key set and payloads of the stores, and the font-level attributes
FontView(f, sts, d) ==
    [scal  |-> f.scal,
     files |-> [sn \in StoreNames |-> [k \in KeysOf(sn) |-> Payload(sts[sn], d, sn, k)]]]

\* Font.save is running (it has passed its checks and has not returned)
Saving == sv.pc \notin {"idle", "reject"}

\* the state right after Font.save was called
Called == sv.pc \in {"reject", "writer"}

\* the call raised here and is about to return
Failing == sv.pc = "finally" /\ sv.exc # "none"

\* the call succeeded and is about to return
Succeeding == sv.pc = "finally" /\ sv.exc = "none"

\* the store made this call on the writer during the running save
Logged(op, sn, key) == \E i \in 1..Len(sv.log) :
    sv.log[i].op = op /\ sv.log[i].sn = sn /\ sv.log[i].k = key

\* the container a complete write of the font to a fresh path, with no
\* structure argument, produces
ContainerOf(f, sts, d) ==
    [exists |-> TRUE,
     structure |-> IF SaveStructure(f, "None") = "None" THEN EmptyContainer.structure
                   ELSE SaveStructure(f, "None"),
     scal   |-> [n \in ScalarNames |-> ScalarValue(f, n)],
     layers |-> f.layers,
     lay    |-> f.lay,
     files  |-> FontView(f, sts, d).files]

(***************************************************************************)
(* Font.save: failure atomicity, rejection, cleanup, remembered path       *)
(***************************************************************************)
\* C1: when Font.save(P, overwrite=True) onto an existing P fails inside
\* Font.write (a scalar write, the layer flush, or a delete, pull-through or
\* write of the data or image store), then while the error propagates and
\* when save returns it, the container at P is what it was before the call.
C1_AtomicOverwrite ==
    [][(Failing /\ sv.at = "write" /\ sv.overwritePath # "None")
          => /\ pre.disk[Loc(sv.overwritePath)].exists
             /\ disk[Loc(sv.overwritePath)] = pre.disk[Loc(sv.overwritePath)]
             /\ disk'[Loc(sv.overwritePath)] = pre.disk[Loc(sv.overwritePath)]
             /\ res' = "IOError"]_vars

\* an overwriting save fails in Font.write after store entries were staged
C1_Witness ==
    /\ Failing /\ sv.at = "write" /\ sv.overwritePath = "P"
    /\ disk["tmp"].exists /\ Len(sv.log) > 1
    /\ disk["tmp"] # pre.disk["P"]

\* C2: during Font.save(P, overwrite=True) onto an existing P, in every
\* state of the operation the destination P holds either the complete old
\* font or the complete new font, never nothing and never a part.
C2_AtomicReplace ==
    (Saving /\ sv.overwritePath # "None")
       => \/ disk[Loc(sv.overwritePath)] = pre.disk[Loc(sv.overwritePath)]
          \/ disk[Loc(sv.overwritePath)] = ContainerOf(font, stores, disk)

\* C3: when an in-place Font.save() (no path, remembered path set) fails
\* part-way, the container at the remembered path is, when save returns,
\* what it was before the call.
C3_FailedSaveIntact ==
    [][(Failing /\ ~sv.saveAs)
          => disk'[Loc(pre.font.path)] = pre.disk[Loc(pre.font.path)]]_vars

\* C4: Font.save(path, overwrite=False) with a path that exists raises the
\* "already exists" OSError with no writer constructed, no temporary
\* directory created, and the disk, the remembered path and the stores
\* unchanged, both before and after the error reaches the caller.
C4_DestinationConflict ==
    [][(Called /\ sv.fv = 3 /\ sv.arg # "None" /\ ~sv.overwrite
          /\ Exists(pre.disk, sv.arg))
          => /\ sv.pc = "reject" /\ sv.exc = "OSError"
             /\ sv.writer = "None" /\ sv.tmp = "None" /\ ~tmpdir /\ ~tmpdir'
             /\ disk = pre.disk /\ font = pre.font /\ stores = pre.stores
             /\ disk' = pre.disk /\ font' = pre.font /\ stores' = pre.stores
             /\ res' = "OSError" /\ sv'.pc = "idle"]_vars

\* a save without overwrite onto an existing path, from a font with edits
\* pending in its stores
C4_Witness ==
    /\ sv.pc = "reject" /\ sv.exc = "OSError" /\ sv.arg \in {"P", "P/"}
    /\ ~sv.overwrite /\ disk["P"].exists
    /\ \E sn \in StoreNames : stores[sn].sched # {}

\* C5: Font.save with a format version other than 3, and Font.save with no
\* path on a font never opened from nor saved to a path, raise at once: no
\* writer, no temporary directory, disk, font and stores unchanged; and the
\* missing-path error is raised only for a font with no such origin, so not
\* after a successful save to a path.
C5_RejectedBeforeIO ==
    [][/\ (Called /\ (sv.fv # 3 \/ (sv.arg = "None" /\ ~origin)))
          => /\ sv.pc = "reject"
             /\ sv.exc = IF sv.fv # 3 THEN "NotImplementedError" ELSE "TypeError"
             /\ sv.writer = "None" /\ sv.tmp = "None" /\ ~tmpdir /\ ~tmpdir'
             /\ sv.log = <<>>
             /\ disk = pre.disk /\ font = pre.font /\ stores = pre.stores
             /\ disk' = pre.disk /\ font' = pre.font /\ stores' = pre.stores
             /\ res' = sv.exc /\ sv'.pc = "idle"
       /\ (Called /\ sv.exc = "TypeError") => (~origin /\ sv.arg = "None")
       /\ (Succeeding /\ sv.saveAs) => origin']_vars

\* a save with no path succeeds on a font that was built from defaults and
\* then saved to a path
C5_Witness ==
    /\ Succeeding /\ sv.arg = "None" /\ origin
    /\ font.reader = "None" /\ stores["data"].reader = "absent"
    /\ font.path = "Q"

\* C6: when Font.save has returned, on the success path and on every failure
\* path, the temporary directory it created and the staged container in it
\* are gone.
C6_StagingCleanup ==
    Idle => (~tmpdir /\ disk["tmp"] = Absent)

\* an overwriting save has returned an error raised between removing the
\* destination and moving the staged container into place
C6_Witness ==
    /\ Idle /\ res = "IOError" /\ ~disk["P"].exists /\ ~tmpdir

\* C7: a successful Font.save(P) leaves the remembered path at the real
\* (normalised) destination, never at the staging path; a successful save()
\* with no path leaves it unchanged; a rejected or failed save leaves it
\* unchanged.
C7_RememberedPath ==
    [][/\ (Succeeding /\ sv.arg # "None")
          => (font'.path = NormPath(sv.arg) /\ font'.path \notin StagePaths)
       /\ (Succeeding /\ sv.arg = "None") => font'.path = pre.font.path
       /\ (Failing \/ sv.pc = "reject")
          => (font.path = pre.font.path /\ font'.path = pre.font.path)]_vars

\* a staged, overwriting save succeeds on a font that remembers another path
C7_Witness ==
    /\ Succeeding /\ sv.overwritePath = "P" /\ sv.path = "P"
    /\ font.path = "Q" /\ disk["P"] = ContainerOf(font, stores, disk)

(***************************************************************************)
(* Round trip and pending deletions                                        *)
(***************************************************************************)
\* C8: after a successful Font.save to a fresh path, opening that path
\* (lazily or eagerly) gives a font whose store keys and payloads and whose
\* info, features, groups, kerning and lib equal those the saved font had
\* when save was called (entries not yet loaded counted with the payload
\* their reader holds), and those it has when save returns.
C8_RoundTrip ==
    [][(Succeeding /\ sv.saveAs /\ sv.overwritePath = "None")
          => \A lazy \in BOOLEAN :
               LET reopened == FontView(FontOpen(disk', sv.path, lazy),
                                        StoresRead(disk', sv.path, lazy), disk') IN
               /\ reopened = FontView(pre.font, pre.stores, pre.disk)
               /\ reopened = FontView(font', stores', disk')]_vars

\* a lazily opened font with an entry never loaded and an entry deleted
\* is saved to a fresh path
C8_Witness ==
    /\ Succeeding /\ sv.saveAs /\ sv.overwritePath = "None" /\ sv.path = "Q"
    /\ \E sn \in StoreNames : \E k \in KeysOf(sn) :
          DictHas(pre.stores[sn].data, k) /\ DictGet(pre.stores[sn].data, k) = NOT_LOADED
    /\ \E sn \in StoreNames : pre.stores[sn].sched # {}
    /\ disk["Q"] # disk["P"]

\* C10: a key deleted from a store and set again before the next flush is
\* not handed to deletef by an in-place write, and once the store's flush
\* has run its loops the key and the payload set have been handed to writef.
C10_DeleteThenSet ==
    \A r \in revived :
       (Saving /\ ~sv.saveAs)
          => /\ ~Logged("deletef", r[1], r[2])
             /\ (sv.pc = "write" /\ sv.todoWrite = <<>> /\ StoreOrder[sv.cur] = r[1])
                   => \E i \in 1..Len(sv.log) :
                         sv.log[i] = Call("writef", r[1], r[2],
                                          DictGet(stores[r[1]].data, r[2]))

\* an in-place flush of a store has written a key that was deleted and set
\* again, with a payload other than the one on disk before
C10_Witness ==
    /\ Saving /\ ~sv.saveAs /\ sv.pc = "write" /\ sv.todoWrite = <<>>
    /\ \E r \in revived :
          /\ StoreOrder[sv.cur] = r[1]
          /\ Logged("writef", r[1], r[2])
          /\ disk[Loc(sv.path)].files[r[1]][r[2]] # pre.disk[Loc(sv.path)].files[r[1]][r[2]]

(***************************************************************************)
(* DataStore.write inside Font.save: the flush protocol                    *)
(***************************************************************************)
\* the position of a store in Font.write
StoreIdx(sn) == CHOOSE i \in 1..Len(StoreOrder) : StoreOrder[i] = sn

\* where in the log of the running save the store made this call
LogIdx(op, sn, key) ==
    {i \in 1..Len(sv.log) : sv.log[i].op = op /\ sv.log[i].sn = sn /\ sv.log[i].k = key}

\* DataStore.write of this store has returned during the running save
Flushed(sn) ==
    \/ sv.pc \in {"del", "write"} /\ StoreIdx(sn) < sv.cur
    \/ sv.pc \in {"close", "remove", "move"}
    \/ sv.pc = "finally" /\ sv.at \in {"none", "close", "remove", "move"}

\* DataStore.write of this store has left its loop over the pending deletions
DeletesDone(sn) ==
    Flushed(sn) \/ (sv.pc = "write" /\ StoreOrder[sv.cur] = sn)

\* DataStore.write of this store has left its loop over the items
WritesDone(sn) ==
    Flushed(sn) \/ (sv.pc = "write" /\ StoreOrder[sv.cur] = sn /\ sv.todoWrite = <<>>)

\* the entry of this key is in the store and not loaded
Unloaded(st, key) == DictHas(st.data, key) /\ DictGet(st.data, key) = NOT_LOADED

\* C14: in a store write with saveAs=False deletef is called at most once
\* per key and only for keys that were pending when the write began, once the
\* deletion loop is over it has been called exactly once for each of them,
\* every call of deletef comes before every call of writef of that store,
\* and when the write has returned the pending set is empty; in a store write
\* with saveAs=True deletef is never called.
C14_FlushProtocol ==
    Saving =>
       \A sn \in StoreNames :
          /\ sv.saveAs => \A key \in KeysOf(sn) : LogIdx("deletef", sn, key) = {}
          /\ ~sv.saveAs =>
                /\ \A key \in KeysOf(sn) :
                      /\ Cardinality(LogIdx("deletef", sn, key)) <= 1
                      /\ LogIdx("deletef", sn, key) # {} => key \in pre.stores[sn].sched
                      /\ (DeletesDone(sn) /\ key \in pre.stores[sn].sched)
                            => Cardinality(LogIdx("deletef", sn, key)) = 1
                /\ \A k1 \in KeysOf(sn), k2 \in KeysOf(sn) :
                      \A i \in LogIdx("deletef", sn, k1), j \in LogIdx("writef", sn, k2) : i < j
          /\ Flushed(sn) => stores[sn].sched = {}

\* an in-place write of the data store has returned after one call of
\* deletef and one call of writef
C14_Witness ==
    /\ Saving /\ ~sv.saveAs /\ Flushed("data")
    /\ pre.stores["data"].sched = {"a"} /\ stores["data"].sched = {}
    /\ LogIdx("deletef", "data", "a") # {} /\ LogIdx("writef", "data", "b") # {}

\* C15: when the item loop of a store write with saveAs=True is over, every
\* key the store held when the write began has been handed to writef exactly
\* once and no other key has, and for an entry that was still unloaded then
\* (never got, set or flushed since the lazy read) the payload handed to
\* writef is the one the store's reader holds for the key.
C15_NoSilentDrop ==
    (Saving /\ sv.saveAs) =>
       \A sn \in StoreNames :
          WritesDone(sn) =>
             \A key \in KeysOf(sn) :
                /\ Cardinality(LogIdx("writef", sn, key))
                      = (IF DictHas(pre.stores[sn].data, key) THEN 1 ELSE 0)
                /\ Unloaded(pre.stores[sn], key)
                      => \A i \in LogIdx("writef", sn, key) :
                            /\ sv.log[i].v # NoFile
                            /\ sv.log[i].v = pre.disk[Loc(pre.stores[sn].reader)].files[sn][key]

\* a save-as has flushed the data store of a lazily opened font in which one
\* entry was never loaded and the other was set
C15_Witness ==
    /\ Saving /\ sv.saveAs /\ Flushed("data")
    /\ Unloaded(pre.stores["data"], "a") /\ ~Unloaded(pre.stores["data"], "b")
    /\ pre.stores["data"].reader = "P"
    /\ LogIdx("writef", "data", "a") # {} /\ LogIdx("writef", "data", "b") # {}
    /\ disk[Loc(sv.path)].files["data"]["a"] = pre.disk["P"].files["data"]["a"]

\* C16 as stated: during a store write with saveAs=False an entry that was
\* unloaded when the write began stays unloaded and is not handed to writef.
C16_InPlaceSkipsUnloaded ==
    (Saving /\ ~sv.saveAs) =>
       \A sn \in StoreNames : \A key \in KeysOf(sn) :
          Unloaded(pre.stores[sn], key)
             => (Unloaded(stores[sn], key) /\ LogIdx("writef", sn, key) = {})

\* C16, amended: when the item loop of a store write with saveAs=False is
\* over, every entry that was unloaded when the write began has been pulled
\* through the reader and is loaded, and has been handed to writef once with
\* the payload the reader holds for it, as in a write with saveAs=True.
C16_InPlaceWritesUnloaded ==
    (Saving /\ ~sv.saveAs) =>
       \A sn \in StoreNames :
          WritesDone(sn) =>
             \A key \in KeysOf(sn) :
                Unloaded(pre.stores[sn], key)
                   => /\ ~Unloaded(stores[sn], key)
                      /\ DictGet(stores[sn].data, key)
                            = pre.disk[Loc(pre.stores[sn].reader)].files[sn][key]
                      /\ Cardinality(LogIdx("writef", sn, key)) = 1
                      /\ \A i \in LogIdx("writef", sn, key) :
                            sv.log[i].v = DictGet(stores[sn].data, key)

\* an in-place save of a lazily opened font has flushed the data store, in
\* which an entry was unloaded when the save began
C16_Witness ==
    /\ Saving /\ ~sv.saveAs /\ Flushed("data")
    /\ Unloaded(pre.stores["data"], "a")
    /\ ~Unloaded(stores["data"], "a")
    /\ LogIdx("writef", "data", "a") # {}

\* C19: a store that holds an unloaded entry holds a reference to its reader,
\* in every state, also while a write is failing and after it has failed; and
\* when a store write with saveAs=True has returned, the store holds no
\* reference to a reader and no unloaded entry.
C19_ReaderRetention ==
    \A sn \in StoreNames :
       /\ (\E key \in KeysOf(sn) : Unloaded(stores[sn], key)) => stores[sn].reader # "absent"
       /\ (Saving /\ sv.saveAs /\ Flushed(sn))
             => /\ stores[sn].reader = "absent"
                /\ \A key \in KeysOf(sn) : ~Unloaded(stores[sn], key)

\* a save-as of a lazily opened font has failed after it flushed the data
\* store and before it flushed the image store, whose entry is unloaded
C19_Witness ==
    /\ Idle /\ res = "IOError"
    /\ stores["data"].reader = "absent" /\ stores["data"].data # <<>>
    /\ stores["images"].reader = "P" /\ Unloaded(stores["images"], "i")

\* C22: the calls Font.write has made are, at every moment of every save,
\* the first of writeFeatures, writeGroups, writeInfo, writeKerning,
\* writeLib, layers.write, data.write, images.write in that order, each flush
\* with the saveAs flag of Font.write; so no data entry reaches the writer
\* before the five attributes and the layers, no image entry before the data
\* store's flush has begun, and a write that has returned has made all eight.
C22_WriteOrdering ==
    Saving =>
       LET order == <<"features", "groups", "info", "kerning", "lib",
                      "layers", "data", "images">>
           n == Len(sv.trace) IN
       /\ n <= 8
       /\ \A i \in 1..n :
             sv.trace[i] = (IF i <= 5 THEN [call |-> order[i]]
                            ELSE [call |-> order[i], saveAs |-> sv.saveAs])
       /\ \A i \in 1..Len(sv.log) :
             n >= (IF sv.log[i].sn = "data" THEN 7 ELSE 8)
       /\ disk[Loc(sv.path)].layers # pre.disk[Loc(sv.path)].layers => n >= 6
       /\ (sv.pc \in {"close", "remove", "move"} \/ Succeeding) => n = 8

\* a save-as has failed in the flush of the image store, after the five
\* attributes, the layers and an entry of the data store reached the writer
C22_Witness ==
    /\ Failing /\ sv.saveAs /\ sv.at = "write"
    /\ Len(sv.trace) = 8
    /\ \E i \in 1..Len(sv.log) : sv.log[i].sn = "data"
    /\ \E i \in 1..Len(sv.log) : sv.log[i].sn = "images"

\* the keys of the files a container holds for a store
DiskKeys(d, p, sn) == {k \in KeysOf(sn) : d[Loc(p)].files[sn][k] # NoFile}

\* the keys a store holds
StoreKeys(st) == Range(DictKeys(st.data))

\* C25: when a save has succeeded and is about to return, whatever calls
\* came before it (saves that failed part-way included), the container at
\* the path the font will remember holds, for the data and for the images,
\* exactly the keys the store holds; a key deleted from the store is not
\* there.
C25_ContainerStoreAgree ==
    Succeeding =>
       \A sn \in StoreNames : DiskKeys(disk, sv.path, sn) = StoreKeys(stores[sn])

(***************************************************************************)
(* Lazy and eager reading of one store, driven by the same calls           *)
(***************************************************************************)
\* Each world has its own copy of the file system, its own store and its own
\* writer; "P" holds the container both stores are read from, in-place
\* writes go to "P" and save-as writes to "Q".
LzStore == "data"

\* DataStore.read(reader, lazy) of the container at "P"
W_read(c, lazy) ==
    LET d == [l \in Locs |-> IF l = "P" THEN c ELSE Absent] IN
    [d |-> d, st |-> DS_read(d, "P", LzStore, lazy), ret |-> NoFile,
     todoDel |-> {}, todoWrite |-> <<>>, log |-> <<>>]

\* store[key]
W_get(w, key) ==
    LET g == DS_getitem(w.st, w.d, LzStore, key, TRUE) IN
    [w EXCEPT !.st = g.st, !.ret = g.ret]

\* store[key] = val
W_set(w, key, val) == [w EXCEPT !.st = DS_setitem(@, key, val)]

\* del store[key]
W_del(w, key) == [w EXCEPT !.st = DS_delitem(@, key)]

\* DataStore.write(writer, saveAs) begins
W_begin(w, saveAs) ==
    [w EXCEPT !.d = WriterOpen(@, IF saveAs THEN "Q" ELSE "P", "None"),
              !.todoDel = DS_writeDeletes(w.st, saveAs),
              !.todoWrite = DS_writeKeys(w.st),
              !.log = <<>>]

\* DataStore.write: deletef(writer, key), which raises unless ok
W_delete(w, key, path, ok) ==
    [w EXCEPT !.d = IF ok THEN DeleteFile(@, path, LzStore, key) ELSE @,
              !.todoDel = IF ok THEN @ \ {key} ELSE {},
              !.todoWrite = IF ok THEN @ ELSE <<>>,
              !.log = Append(@, Call("deletef", LzStore, key, NoFile))]

\* DataStore.write: the next item of self.items() and writef(writer, key,
\* data), which raises unless ok
W_write(w, path, ok) ==
    LET key == Head(w.todoWrite)
        g   == DS_getitem(w.st, w.d, LzStore, key, TRUE) IN
    IF g.raised
    THEN [w EXCEPT !.todoWrite = <<>>]
    ELSE [w EXCEPT !.st = g.st,
                   !.d = IF ok THEN WriteFile(@, path, LzStore, key, g.ret) ELSE @,
                   !.todoWrite = IF ok THEN Tail(@) ELSE <<>>,
                   !.log = Append(@, Call("writef", LzStore, key, g.ret))]

\* DataStore.write after its loops
W_end(w, saveAs) == [w EXCEPT !.st = DS_writeEnd(@, saveAs)]

\* what a caller can see of a world: the keys in order, the length, what the
\* last get returned, what a get of each key returns, the pending deletions,
\* the calls made on the writer, and the file system
Observed(w) ==
    [keys     |-> DS_iter(w.st),
     len      |-> DS_len(w.st),
     ret      |-> w.ret,
     payloads |-> [k \in KeysOf(LzStore) |-> Payload(w.st, w.d, LzStore, k)],
     sched    |-> w.st.sched,
     todoDel  |-> w.todoDel,
     todoWrite |-> w.todoWrite,
     log      |-> w.log,
     d        |-> w.d]

LzIdle == lz.pc = "idle"

LzPath == IF lz.saveAs THEN "Q" ELSE "P"

LzGet(key) ==
    /\ LzIdle
    /\ DictHas(lz.lazy.st.data, key) /\ DictHas(lz.eager.st.data, key)
    /\ lz' = [lz EXCEPT !.lazy = W_get(@, key), !.eager = W_get(@, key)]

LzSet(key, val) ==
    /\ LzIdle
    /\ lz' = [lz EXCEPT !.lazy = W_set(@, key, val), !.eager = W_set(@, key, val)]

LzDel(key) ==
    /\ LzIdle
    /\ DictHas(lz.lazy.st.data, key) /\ DictHas(lz.eager.st.data, key)
    /\ lz' = [lz EXCEPT !.lazy = W_del(@, key), !.eager = W_del(@, key)]

LzWriteBegin(saveAs) ==
    /\ LzIdle
    /\ lz' = [lz EXCEPT !.pc = "write", !.saveAs = saveAs,
                        !.lazy = W_begin(@, saveAs), !.eager = W_begin(@, saveAs)]

LzDeleteStep ==
    /\ lz.pc = "write"
    /\ \E key \in lz.lazy.todoDel \cap lz.eager.todoDel, ok \in BOOLEAN :
          lz' = [lz EXCEPT !.pc = IF ok THEN "write" ELSE "idle",
                           !.lazy = W_delete(@, key, LzPath, ok),
                           !.eager = W_delete(@, key, LzPath, ok)]

LzWriteStep ==
    /\ lz.pc = "write"
    /\ lz.lazy.todoDel = {} /\ lz.eager.todoDel = {}
    /\ lz.lazy.todoWrite # <<>> /\ lz.eager.todoWrite # <<>>
    /\ \E ok \in BOOLEAN :
          lz' = [lz EXCEPT !.pc = IF ok THEN "write" ELSE "idle",
                           !.lazy = W_write(@, LzPath, ok),
                           !.eager = W_write(@, LzPath, ok)]

LzWriteEnd ==
    /\ lz.pc = "write"
    /\ lz.lazy.todoDel = {} /\ lz.eager.todoDel = {}
    /\ lz.lazy.todoWrite = <<>> /\ lz.eager.todoWrite = <<>>
    /\ lz' = [lz EXCEPT !.pc = "idle",
                        !.lazy = W_end(@, lz.saveAs), !.eager = W_end(@, lz.saveAs)]

\* the well-formed containers a store is read from
LzSources ==
    {[EmptyContainer EXCEPT !.files[LzStore] = fs] :
        fs \in [KeysOf(LzStore) -> Payloads \cup {NoFile}]}

LzInit ==
    /\ disk = [l \in Locs |-> IF l = "P" THEN Source ELSE Absent]
    /\ font = NewFont
    /\ stores = [sn \in StoreNames |-> NewStore]
    /\ sv = NoSave
    /\ tmpdir = FALSE
    /\ pre = Snap(disk, font, stores)
    /\ res = "none"
    /\ origin = FALSE
    /\ revived = {}
    /\ ops = 0
    /\ glyph = NoGlyph
    /\ ds = NoStore
    /\ rd = NoOpen
    /\ \E c \in LzSources :
          lz = [on |-> TRUE, pc |-> "idle", saveAs |-> FALSE,
                lazy |-> W_read(c, TRUE), eager |-> W_read(c, FALSE)]

LzNext ==
    /\ UNCHANGED <<disk, font, stores, sv, tmpdir, pre, res, origin, revived, ops, glyph, ds, rd>>
    /\ \/ \E key \in KeysOf(LzStore) : LzGet(key)
       \/ \E key \in KeysOf(LzStore), val \in Payloads : LzSet(key, val)
       \/ \E key \in KeysOf(LzStore) : LzDel(key)
       \/ \E saveAs \in BOOLEAN : LzWriteBegin(saveAs)
       \/ LzDeleteStep
       \/ LzWriteStep
       \/ LzWriteEnd

SpecLazy == LzInit /\ [][LzNext]_vars

\* C9: a store read lazily and a store read eagerly from the same container,
\* given the same gets, sets, deletes and writes, show the same keys in the
\* same order, the same length, the same value for every get, and hand the
\* same deletions and the same (key, payload) pairs to the writer.
C9_LazyEquivalence == Observed(lz.lazy) = Observed(lz.eager)

\* the lazy store still holds an unloaded entry after a get pulled another
\* one through and a write handed calls to the writer
C9_Witness ==
    /\ \E i \in 1..Len(lz.lazy.st.data) : lz.lazy.st.data[i].v = NOT_LOADED
    /\ \E i \in 1..Len(lz.lazy.st.data) :
          lz.lazy.st.data[i].v # NOT_LOADED /\ lz.lazy.st.data[i].v = lz.lazy.ret
    /\ Len(lz.lazy.log) > 0
    /\ lz.lazy.st.data # lz.eager.st.data

(***************************************************************************)
(* Layer names and the assertion of Font.write                             *)
(***************************************************************************)
\* the calls that name layers, the calls that open a font and delete from
\* its stores, and Font.save
LayersNext ==
    \/ \E p \in OpenPaths, lazy \in BOOLEAN : Open(p, lazy)
    \/ \E sn \in StoreNames : \E key \in KeysOf(sn) : Del(sn, key)
    \/ \E name \in LayerNames : NewLayer(name)
    \/ \E name \in LayerNames, newName \in LayerNames, overwrite \in BOOLEAN :
          RenameLayer(name, newName, overwrite)
    \/ \E arg \in PathArgs \cup {"None"}, fv \in {2, 3}, overwrite \in BOOLEAN :
          SaveBegin(arg, fv, "None", overwrite)
    \/ Reject
    \/ WriterStep
    \/ ScalarStep
    \/ LayersStep
    \/ DeleteStep
    \/ WriteStep
    \/ StoreWriteEnd
    \/ CloseStep
    \/ RemoveStep
    \/ MoveStep
    \/ FinallyStep

SpecLayers == Init /\ [][LayersNext]_vars

\* the default layer is not named with the reserved name and another layer is
LayerNameClash(f) ==
    f.lay.default # DEFAULT_LAYER_NAME /\ DEFAULT_LAYER_NAME \in Range(f.lay.order)

\* C11: once Font.save has built its writer and called Font.write on a font
\* whose default layer is not named with the reserved name while another
\* layer is, the call is failing with the AssertionError of Font.write, and
\* no font-level attribute, no layer and no store entry has reached the
\* writer: the container the writer is bound to is as the writer's
\* constructor left it.
C11_DefaultLayerExclusive ==
    (Saving /\ sv.pc # "writer" /\ sv.at # "writer" /\ LayerNameClash(font))
       => /\ sv.pc = "finally" /\ sv.exc = "AssertionError" /\ sv.at = "write"
          /\ sv.writer = "closed"
          /\ sv.log = <<>>
          /\ disk = WriterOpen(pre.disk, sv.path, sv.structure)

\* Font.write has failed in an in-place save of a font that was opened, whose
\* default layer was then renamed and that then got a layer of the reserved
\* name
C11_Witness ==
    /\ sv.pc = "finally" /\ sv.exc = "AssertionError" /\ ~sv.saveAs
    /\ font.path = "P" /\ stores["data"].data # <<>>
    /\ font.lay.default = "fg" /\ DEFAULT_LAYER_NAME \in Range(font.lay.order)

(***************************************************************************)
(* Glyph (objects/glyph.py): unicode, and the left and right margins       *)
(***************************************************************************)
MaxLen == 3
MaxParts == 2

\* `None`, as the value of Glyph.unicode and as the value assigned to it
NONE == -1

Codes == {3, 5, 7}
Margins == {0, 20}
Widths == {100}
Heights == {60}
Origins == {50}
SideMargins == {-10, 0, 20}

Pt(x, y) == [x |-> x, y |-> y]

\* the contours, the component offset and the anchor a caller adds
Outlines ==
    << <<Pt(10, 0), Pt(90, 0)>>,
       <<Pt(10, 0), Pt(50, 40), Pt(90, 0)>>,
       <<Pt(30, 10), Pt(60, 20)>> >>
Offsets == {Pt(0, 0)}
AnchorPts == {Pt(50, 0)}

\* Glyph.verticalOrigin when lib holds no "public.verticalOrigin": None
NoOrigin == [set |-> FALSE, v |-> 0]

\* a value of Glyph.verticalOrigin other than None
Origin(v) == [set |-> TRUE, v |-> v]

\* Glyph(): the attributes of a glyph built from defaults
NewGlyph ==
    [width |-> 0, height |-> 0, verticalOrigin |-> NoOrigin, unicodes |-> <<>>,
     contours |-> <<>>, components |-> <<>>, anchors |-> <<>>]

\* Glyph.unicode: the first code point, or None
Glyph_unicode(g) == IF g.unicodes # <<>> THEN g.unicodes[1] ELSE NONE

\* list.remove(value) inside try/except ValueError: the first occurrence
\* goes; the list is unchanged when there is none
ListRemove(L, value) ==
    IF \A i \in 1..Len(L) : L[i] # value THEN L
    ELSE LET i == CHOOSE i \in 1..Len(L) :
                     L[i] = value /\ \A j \in 1..(i - 1) : L[j] # value IN
         SubSeq(L, 1, i - 1) \o SubSeq(L, i + 1, Len(L))

\* a setter that puts the value first and removes nothing
Glyph_unicode_setter_keeps(g, value) ==
    IF value = NONE THEN [g EXCEPT !.unicodes = <<>>]
    ELSE IF g.unicodes # <<>> /\ g.unicodes[1] = value THEN g
    ELSE [g EXCEPT !.unicodes = <<value>> \o @]

\* Glyph.unicode = value
Glyph_unicode_setter(g, value) ==
    IF value = NONE
    THEN [g EXCEPT !.unicodes = <<>>]
    ELSE IF g.unicodes # <<>>
         THEN IF g.unicodes[1] = value
              THEN g
              ELSE [g EXCEPT !.unicodes = <<value>> \o ListRemove(@, value)]
         ELSE [g EXCEPT !.unicodes = Append(@, value)]

\* Contour.move, Component.move, Anchor.move: every point shifted by delta
MovePts(pts, delta) ==
    [i \in 1..Len(pts) |-> Pt(pts[i].x + delta.x, pts[i].y + delta.y)]

\* Glyph.move(delta)
Glyph_move(g, delta) ==
    [g EXCEPT !.contours = [i \in 1..Len(g.contours) |-> MovePts(g.contours[i], delta)],
              !.components = MovePts(g.components, delta),
              !.anchors = MovePts(g.anchors, delta)]

\* the points of the glyph's contours
ContourPts(g) == UNION {Range(g.contours[i]) : i \in 1..Len(g.contours)}

SetMin(S) == CHOOSE m \in S : \A n \in S : m <= n

SetMax(S) == CHOOSE m \in S : \A n \in S : m >= n

\* Glyph.getBounds(layer=None): TypeError for a glyph with components, None
\* for a glyph with no point, else the box around the points of its contours
Glyph_getBounds(g) ==
    LET pts == ContourPts(g) IN
    IF g.components # <<>>
    THEN [kind |-> "TypeError", xMin |-> 0, yMin |-> 0, xMax |-> 0, yMax |-> 0]
    ELSE IF pts = {}
    THEN [kind |-> "None", xMin |-> 0, yMin |-> 0, xMax |-> 0, yMax |-> 0]
    ELSE [kind |-> "box",
          xMin |-> SetMin({q.x : q \in pts}), yMin |-> SetMin({q.y : q \in pts}),
          xMax |-> SetMax({q.x : q \in pts}), yMax |-> SetMax({q.y : q \in pts})]

\* Glyph.getLeftMargin()
Glyph_getLeftMargin(g) ==
    LET bounds == Glyph_getBounds(g) IN
    IF bounds.kind # "box" THEN [kind |-> bounds.kind, v |-> 0]
    ELSE [kind |-> "value", v |-> bounds.xMin]

\* a setLeftMargin that changes the width and leaves the outline in place
Glyph_setLeftMargin_noMove(g, value) ==
    LET bounds == Glyph_getBounds(g) IN
    IF bounds.kind # "box" THEN g
    ELSE [g EXCEPT !.width = @ + (value - bounds.xMin)]

\* Glyph.setLeftMargin(value)
Glyph_setLeftMargin(g, value) ==
    LET bounds == Glyph_getBounds(g) IN
    IF bounds.kind # "box" THEN g
    ELSE LET diff == value - bounds.xMin IN
         IF diff # 0
         THEN Glyph_move([g EXCEPT !.width = @ + diff], Pt(diff, 0))
         ELSE g

\* Glyph.getRightMargin()
Glyph_getRightMargin(g) ==
    LET bounds == Glyph_getBounds(g) IN
    IF bounds.kind # "box" THEN [kind |-> bounds.kind, v |-> 0]
    ELSE [kind |-> "value", v |-> g.width - bounds.xMax]

\* Glyph.setRightMargin(value)
Glyph_setRightMargin(g, value) ==
    LET bounds == Glyph_getBounds(g) IN
    IF bounds.kind # "box" THEN g
    ELSE [g EXCEPT !.width = bounds.xMax + value]

\* Glyph.verticalOrigin = value: the lib key is written, or deleted for None
Glyph_verticalOrigin_setter(g, value) ==
    [g EXCEPT !.verticalOrigin = IF value.set THEN value ELSE NoOrigin]

\* Glyph.getBottomMargin()
Glyph_getBottomMargin(g) ==
    LET bounds == Glyph_getBounds(g) IN
    IF bounds.kind # "box" THEN [kind |-> bounds.kind, v |-> 0]
    ELSE IF ~g.verticalOrigin.set
    THEN [kind |-> "value", v |-> bounds.yMin]
    ELSE [kind |-> "value", v |-> bounds.yMin - (g.verticalOrigin.v - g.height)]

\* a setBottomMargin that leaves an unset verticalOrigin unset
Glyph_setBottomMargin_noOrigin(g, value) ==
    LET bounds == Glyph_getBounds(g) IN
    IF bounds.kind # "box" THEN g
    ELSE LET oldValue == IF ~g.verticalOrigin.set THEN bounds.yMin
                         ELSE bounds.yMin - (g.verticalOrigin.v - g.height) IN
         [g EXCEPT !.height = @ + (value - oldValue)]

\* Glyph.setBottomMargin(value)
Glyph_setBottomMargin(g, value) ==
    LET bounds == Glyph_getBounds(g) IN
    IF bounds.kind # "box" THEN g
    ELSE LET unset    == ~g.verticalOrigin.set
             oldValue == IF unset THEN bounds.yMin
                         ELSE bounds.yMin - (g.verticalOrigin.v - g.height)
             g1       == IF unset THEN Glyph_verticalOrigin_setter(g, Origin(g.height))
                         ELSE g
             diff     == value - oldValue IN
         IF diff # 0 THEN [g1 EXCEPT !.height = @ + diff] ELSE g1

\* Glyph.getTopMargin()
Glyph_getTopMargin(g) ==
    LET bounds == Glyph_getBounds(g) IN
    IF bounds.kind # "box" THEN [kind |-> bounds.kind, v |-> 0]
    ELSE IF ~g.verticalOrigin.set
    THEN [kind |-> "value", v |-> g.height - bounds.yMax]
    ELSE [kind |-> "value", v |-> g.verticalOrigin.v - bounds.yMax]

\* a setTopMargin that sets an unset verticalOrigin to the height, as
\* setBottomMargin does, and otherwise leaves it
Glyph_setTopMargin_oldHeight(g, value) ==
    LET bounds == Glyph_getBounds(g) IN
    IF bounds.kind # "box" THEN g
    ELSE LET unset    == ~g.verticalOrigin.set
             oldValue == IF unset THEN g.height - bounds.yMax
                         ELSE g.verticalOrigin.v - bounds.yMax
             g1       == IF unset THEN Glyph_verticalOrigin_setter(g, Origin(g.height))
                         ELSE g IN
         [g1 EXCEPT !.height = @ + (value - oldValue)]

\* Glyph.setTopMargin(value)
Glyph_setTopMargin(g, value) ==
    LET bounds == Glyph_getBounds(g) IN
    IF bounds.kind # "box" THEN g
    ELSE LET oldValue == IF ~g.verticalOrigin.set THEN g.height - bounds.yMax
                         ELSE g.verticalOrigin.v - bounds.yMax
             diff     == value - oldValue IN
         IF oldValue # value
         THEN [Glyph_verticalOrigin_setter(g, Origin(bounds.yMax + value))
                  EXCEPT !.height = @ + diff]
         ELSE g

\* the glyph after a call, with the call, its argument and the glyph before
Did(op, arg, g) ==
    glyph' = [glyph EXCEPT !.g = g, !.last = [op |-> op, arg |-> arg, old |-> glyph.g]]

Parts(g) == Len(g.contours) + Len(g.components) + Len(g.anchors)

\* glyph.appendContour(contour)
AppendContour(n) ==
    /\ Parts(glyph.g) < MaxParts
    /\ Did("appendContour", n, [glyph.g EXCEPT !.contours = Append(@, Outlines[n])])

\* glyph.components.append(component)
AppendComponent(off) ==
    /\ Parts(glyph.g) < MaxParts
    /\ Did("appendComponent", 0, [glyph.g EXCEPT !.components = Append(@, off)])

\* glyph.appendAnchor(anchor)
AppendAnchor(a) ==
    /\ Parts(glyph.g) < MaxParts
    /\ Did("appendAnchor", 0, [glyph.g EXCEPT !.anchors = Append(@, a)])

\* glyph.width = w
SetWidth(w) == Did("width", w, [glyph.g EXCEPT !.width = w])

\* glyph.unicodes.append(v)
AppendUnicode(v) ==
    /\ Len(glyph.g.unicodes) < MaxLen
    /\ Did("append", v, [glyph.g EXCEPT !.unicodes = Append(@, v)])

\* glyph.unicode = value
SetUnicode(value) ==
    /\ Len(Glyph_unicode_setter(glyph.g, value).unicodes) <= MaxLen
    /\ Did("unicode", value, Glyph_unicode_setter(glyph.g, value))

\* glyph.setLeftMargin(value)
SetLeftMargin(value) == Did("setLeftMargin", value, Glyph_setLeftMargin(glyph.g, value))

\* glyph.setRightMargin(value)
SetRightMargin(value) == Did("setRightMargin", value, Glyph_setRightMargin(glyph.g, value))

\* glyph.height = h
SetHeight(h) == Did("height", h, [glyph.g EXCEPT !.height = h])

\* glyph.verticalOrigin = v
SetVerticalOrigin(v) ==
    Did("verticalOrigin", v, Glyph_verticalOrigin_setter(glyph.g, Origin(v)))

\* glyph.verticalOrigin = None
ClearVerticalOrigin ==
    Did("verticalOrigin", 0, Glyph_verticalOrigin_setter(glyph.g, NoOrigin))

\* glyph.setBottomMargin(value)
SetBottomMargin(value) == Did("setBottomMargin", value, Glyph_setBottomMargin(glyph.g, value))

\* glyph.setTopMargin(value)
SetTopMargin(value) == Did("setTopMargin", value, Glyph_setTopMargin(glyph.g, value))

GlyphInit ==
    /\ disk = [l \in Locs |-> IF l = "P" THEN Source ELSE Absent]
    /\ font = NewFont
    /\ stores = [sn \in StoreNames |-> NewStore]
    /\ sv = NoSave
    /\ tmpdir = FALSE
    /\ pre = Snap(disk, font, stores)
    /\ res = "none"
    /\ origin = FALSE
    /\ revived = {}
    /\ ops = 0
    /\ lz = NoLazy
    /\ glyph = [on |-> TRUE, g |-> NewGlyph,
                last |-> [op |-> "new", arg |-> 0, old |-> NewGlyph]]
    /\ ds = NoStore
    /\ rd = NoOpen

\* the calls that change the code points of the glyph
UnicodeNext ==
    /\ UNCHANGED <<disk, font, stores, sv, tmpdir, pre, res, origin, revived, ops, lz, ds, rd>>
    /\ \/ \E v \in Codes : AppendUnicode(v)
       \/ \E value \in Codes \cup {NONE} : SetUnicode(value)

SpecUnicode == GlyphInit /\ [][UnicodeNext]_vars

\* the calls that change the outline, the width and the margins of the glyph
MarginNext ==
    /\ UNCHANGED <<disk, font, stores, sv, tmpdir, pre, res, origin, revived, ops, lz, ds, rd>>
    /\ \/ \E n \in 1..Len(Outlines) : AppendContour(n)
       \/ \E off \in Offsets : AppendComponent(off)
       \/ \E a \in AnchorPts : AppendAnchor(a)
       \/ \E w \in Widths : SetWidth(w)
       \/ \E value \in Margins : SetLeftMargin(value)
       \/ \E value \in Margins : SetRightMargin(value)

SpecMargin == GlyphInit /\ [][MarginNext]_vars

\* how often a value occurs in a list
Count(L, value) == Cardinality({i \in 1..Len(L) : L[i] = value})

\* the elements of a list other than a value, in order
Without(L, value) == SelectSeq(L, LAMBDA e : e # value)

\* C12 as stated: after `glyph.unicode = v` the list is [v] followed by the
\* elements of the list before other than v, in order, v occurs once and
\* unicode reads v; after `glyph.unicode = None` the list is empty and unicode
\* reads None.
C12_UnicodePrimacy_AnyList ==
    (glyph.on /\ glyph.last.op = "unicode")
       => LET L == glyph.last.old.unicodes
              v == glyph.last.arg
              N == glyph.g.unicodes IN
          IF v = NONE
          THEN N = <<>> /\ Glyph_unicode(glyph.g) = NONE
          ELSE /\ N = <<v>> \o Without(L, v)
               /\ Count(N, v) = 1
               /\ Glyph_unicode(glyph.g) = v

\* C12, amended: after `glyph.unicode = v` v is first, unicode reads v, the
\* other elements are those of the list before in their order, and v occurs
\* as often as before, or once when it did not occur; so for a list that
\* held v at most once the list is [v] followed by the elements other than v
\* and v occurs exactly once. After `glyph.unicode = None` the list is empty
\* and unicode reads None.
C12_UnicodePrimacy ==
    (glyph.on /\ glyph.last.op = "unicode")
       => LET L == glyph.last.old.unicodes
              v == glyph.last.arg
              N == glyph.g.unicodes IN
          IF v = NONE
          THEN N = <<>> /\ Glyph_unicode(glyph.g) = NONE
          ELSE /\ N # <<>> /\ N[1] = v
               /\ Glyph_unicode(glyph.g) = v
               /\ Without(N, v) = Without(L, v)
               /\ Count(N, v) = (IF Count(L, v) = 0 THEN 1 ELSE Count(L, v))
               /\ Count(L, v) <= 1 => (N = <<v>> \o Without(L, v) /\ Count(N, v) = 1)

\* unicode = 5 was assigned on a glyph whose unicodes were [3, 5, 7]
C12_Witness ==
    /\ glyph.on /\ glyph.last.op = "unicode" /\ glyph.last.arg = 5
    /\ glyph.last.old.unicodes = <<3, 5, 7>>
    /\ glyph.g.unicodes = <<5, 3, 7>>

\* the glyph of the margin example before the call: contours only, bounds
\* xMin = 10 and xMax = 90, width 100
MarginExample(g) ==
    /\ g.components = <<>>
    /\ Glyph_getBounds(g).kind = "box"
    /\ Glyph_getBounds(g).xMin = 10 /\ Glyph_getBounds(g).xMax = 90
    /\ g.width = 100

\* C13 as stated: on the glyph of the example setLeftMargin(20) gives
\* xMin = 20 and width = 110, and getRightMargin() then returns 20.
C13_MarginExample_Right20 ==
    (glyph.on /\ glyph.last.op = "setLeftMargin" /\ glyph.last.arg = 20
        /\ MarginExample(glyph.last.old))
       => /\ Glyph_getBounds(glyph.g).xMin = 20
          /\ glyph.g.width = 110
          /\ Glyph_getRightMargin(glyph.g) = [kind |-> "value", v |-> 20]

\* C13, amended: on the glyph of the example setLeftMargin(20) gives
\* xMin = 20 and width = 110, the outline has moved with the margin
\* (xMax = 100), and getRightMargin() then returns 10, as it did before.
C13_MarginExample ==
    (glyph.on /\ glyph.last.op = "setLeftMargin" /\ glyph.last.arg = 20
        /\ MarginExample(glyph.last.old))
       => /\ Glyph_getBounds(glyph.g).xMin = 20
          /\ Glyph_getBounds(glyph.g).xMax = 100
          /\ glyph.g.width = 110
          /\ Glyph_getRightMargin(glyph.g) = [kind |-> "value", v |-> 10]
          /\ Glyph_getRightMargin(glyph.last.old) = [kind |-> "value", v |-> 10]

\* setLeftMargin(20) was called on the glyph of the example
C13_Witness ==
    /\ glyph.on /\ glyph.last.op = "setLeftMargin" /\ glyph.last.arg = 20
    /\ MarginExample(glyph.last.old)
    /\ glyph.g.contours # glyph.last.old.contours

(***************************************************************************)
(* Glyph: the four margins, the height and the vertical origin             *)
(***************************************************************************)
\* the calls that add contours and set the width, the height, the vertical
\* origin and the four margins of the glyph; ops counts the calls made
SidesNext ==
    /\ ops < MaxOps
    /\ ops' = ops + 1
    /\ UNCHANGED <<disk, font, stores, sv, tmpdir, pre, res, origin, revived, lz, ds, rd>>
    /\ \/ \E n \in 1..Len(Outlines) : AppendContour(n)
       \/ \E w \in Widths : SetWidth(w)
       \/ \E h \in Heights : SetHeight(h)
       \/ \E v \in Origins : SetVerticalOrigin(v)
       \/ ClearVerticalOrigin
       \/ \E value \in SideMargins : SetLeftMargin(value)
       \/ \E value \in SideMargins : SetRightMargin(value)
       \/ \E value \in SideMargins : SetBottomMargin(value)
       \/ \E value \in SideMargins : SetTopMargin(value)

SpecSides == GlyphInit /\ [][SidesNext]_vars

\* the glyph has contours only and they have points
Measurable(g) == g.components = <<>> /\ Glyph_getBounds(g).kind = "box"

\* the last call was this setter, on a glyph with contours only and bounds
Called_(op) == glyph.on /\ glyph.last.op = op /\ Measurable(glyph.last.old)

\* C23: on a glyph with contours only and non-empty bounds, with the
\* vertical origin set or unset, after setLeftMargin(v), setRightMargin(v),
\* setBottomMargin(v), setTopMargin(v) the getter of that side returns v;
\* setLeftMargin leaves getRightMargin, setBottomMargin leaves getTopMargin
\* and setTopMargin leaves getBottomMargin as it was.
C23_MarginSetThenGet ==
    LET v == [kind |-> "value", v |-> glyph.last.arg] IN
    /\ Called_("setLeftMargin")
          => /\ Glyph_getLeftMargin(glyph.g) = v
             /\ Glyph_getRightMargin(glyph.g) = Glyph_getRightMargin(glyph.last.old)
    /\ Called_("setRightMargin") => Glyph_getRightMargin(glyph.g) = v
    /\ Called_("setBottomMargin")
          => /\ Glyph_getBottomMargin(glyph.g) = v
             /\ Glyph_getTopMargin(glyph.g) = Glyph_getTopMargin(glyph.last.old)
    /\ Called_("setTopMargin")
          => /\ Glyph_getTopMargin(glyph.g) = v
             /\ Glyph_getBottomMargin(glyph.g) = Glyph_getBottomMargin(glyph.last.old)

\* setBottomMargin has changed the height of a glyph whose vertical origin
\* was unset, and whose left margin had been set before
C23_Witness ==
    /\ Called_("setBottomMargin") /\ ~glyph.last.old.verticalOrigin.set
    /\ glyph.g.height # glyph.last.old.height
    /\ Glyph_getTopMargin(glyph.g).v # 0
    /\ Glyph_getBounds(glyph.g).xMin # 10

\* C24 as stated: after setBottomMargin(v) or setTopMargin(v) on a glyph with
\* bounds whose vertical origin was unset, the vertical origin is set to the
\* height the glyph had before the call.
C24_OriginIsOldHeight ==
    ((Called_("setBottomMargin") \/ Called_("setTopMargin"))
        /\ ~glyph.last.old.verticalOrigin.set)
       => glyph.g.verticalOrigin = Origin(glyph.last.old.height)

\* C24, amended: on a glyph with bounds whose vertical origin was unset,
\* setBottomMargin(v) sets the vertical origin to the height the glyph had
\* before the call, for every v; setTopMargin(v) leaves the glyph as it was,
\* the vertical origin unset, when v is the top margin the glyph has, and
\* else sets the vertical origin to yMax + v, which is the height the glyph
\* has after the call and not the one before.
C24_LazyVerticalOrigin ==
    LET old == glyph.last.old
        v   == glyph.last.arg IN
    /\ (Called_("setBottomMargin") /\ ~old.verticalOrigin.set)
          => glyph.g.verticalOrigin = Origin(old.height)
    /\ (Called_("setTopMargin") /\ ~old.verticalOrigin.set)
          => IF v = old.height - Glyph_getBounds(old).yMax
             THEN glyph.g = old
             ELSE /\ glyph.g.verticalOrigin = Origin(Glyph_getBounds(old).yMax + v)
                  /\ glyph.g.verticalOrigin = Origin(glyph.g.height)
                  /\ glyph.g.verticalOrigin # Origin(old.height)

\* setTopMargin(20) has set the vertical origin of a glyph of height 60 and
\* yMax 20, where it was unset, to 40
C24_Witness ==
    /\ Called_("setTopMargin") /\ glyph.last.arg = 20
    /\ ~glyph.last.old.verticalOrigin.set /\ glyph.last.old.height = 60
    /\ Glyph_getBounds(glyph.last.old).yMax = 20
    /\ glyph.g.verticalOrigin = Origin(40)

(***************************************************************************)
(* One DataStore under read, get, set, delete and write                    *)
(***************************************************************************)
\* The store is read from the container at "P"; a write with saveAs=False
\* goes to a writer on "P" and a write with saveAs=True to a writer on "Q".
\* Every call of readf, deletef and writef may raise. nread counts, for each
\* key, the calls of readf and those that returned; last is the last call
\* made on the store, with the store and the counts before it.
StKeys == KeysOf(LzStore)

StIdle == ds.pc = "idle"

StPath == IF ds.saveAs THEN "Q" ELSE "P"

\* the call and its outcome, with the store and the read counts before it
StLast(op, key, raised, ret) ==
    [op |-> op, k |-> key, raised |-> raised, ret |-> ret,
     old |-> ds.st, reads |-> ds.nread]

\* the read counts after a call of __getitem__
StCount(nread, key, g) ==
    [nread EXCEPT ![key] = [calls   |-> @.calls + (IF g.read THEN 1 ELSE 0),
                            returns |-> @.returns + (IF g.read /\ ~g.raised THEN 1 ELSE 0)]]

\* store[key]: KeyError for a key the store does not hold
StGet(key) ==
    /\ StIdle /\ ds.n < MaxOps
    /\ IF ~DictHas(ds.st.data, key)
       THEN ds' = [ds EXCEPT !.last = StLast("get", key, "KeyError", NoFile), !.n = @ + 1]
       ELSE \E ioOk \in BOOLEAN :
               LET g == DS_getitem(ds.st, ds.d, LzStore, key, ioOk) IN
               ds' = [ds EXCEPT !.st = g.st,
                                !.nread = StCount(@, key, g),
                                !.last = StLast("get", key,
                                                IF g.raised THEN "IOError" ELSE "none", g.ret),
                                !.n = @ + 1]

\* store[key] = val
StSet(key, val) ==
    /\ StIdle /\ ds.n < MaxOps
    /\ ds' = [ds EXCEPT !.st = DS_setitem(@, key, val),
                        !.last = StLast("set", key, "none", val),
                        !.n = @ + 1]

\* del store[key]: KeyError for a key the store does not hold
StDel(key) ==
    /\ StIdle /\ ds.n < MaxOps
    /\ ds' = [ds EXCEPT !.st = DS_delitem(@, key),
                        !.last = StLast("del", key,
                                        IF DictHas(ds.st.data, key) THEN "none" ELSE "KeyError",
                                        NoFile),
                        !.n = @ + 1]

\* store.write(writer, saveAs) is called
StWriteBegin(saveAs) ==
    /\ StIdle /\ ds.n < MaxOps
    /\ ds' = [ds EXCEPT !.pc = "write", !.saveAs = saveAs,
                        !.d = WriterOpen(@, IF saveAs THEN "Q" ELSE "P", "None"),
                        !.todoDel = DS_writeDeletes(ds.st, saveAs),
                        !.todoWrite = DS_writeKeys(ds.st),
                        !.log = <<>>,
                        !.last = StLast("write", "none", "none", NoFile),
                        !.n = @ + 1]

\* DataStore.write: one turn of the loop over _scheduledForDeletion
StDeleteStep ==
    /\ ds.pc = "write"
    /\ \E key \in ds.todoDel, ok \in BOOLEAN :
          ds' = [ds EXCEPT !.d = IF ok THEN DeleteFile(@, StPath, LzStore, key) ELSE @,
                           !.todoDel = IF ok THEN @ \ {key} ELSE {},
                           !.todoWrite = IF ok THEN @ ELSE <<>>,
                           !.pc = IF ok THEN "write" ELSE "idle",
                           !.log = Append(@, Call("deletef", LzStore, key, NoFile)),
                           !.last = StLast("deletef", key,
                                           IF ok THEN "none" ELSE "IOError", NoFile)]

\* DataStore.write: one turn of the loop over self.items(): __getitem__, then
\* writef
StWriteStep ==
    /\ ds.pc = "write" /\ ds.todoDel = {} /\ ds.todoWrite # <<>>
    /\ \E readOk \in BOOLEAN, ok \in BOOLEAN :
          LET key == Head(ds.todoWrite)
              g   == DS_getitem(ds.st, ds.d, LzStore, key, readOk)
              done == ~g.raised /\ ok IN
          ds' = [ds EXCEPT !.st = g.st,
                           !.nread = StCount(@, key, g),
                           !.d = IF done THEN WriteFile(@, StPath, LzStore, key, g.ret) ELSE @,
                           !.todoWrite = IF done THEN Tail(@) ELSE <<>>,
                           !.pc = IF done THEN "write" ELSE "idle",
                           !.log = IF g.raised THEN @
                                   ELSE Append(@, Call("writef", LzStore, key, g.ret)),
                           !.last = StLast("writef", key,
                                           IF done THEN "none" ELSE "IOError", g.ret)]

\* DataStore.write after its loops
StWriteEnd ==
    /\ ds.pc = "write" /\ ds.todoDel = {} /\ ds.todoWrite = <<>>
    /\ ds' = [ds EXCEPT !.st = DS_writeEnd(@, ds.saveAs), !.pc = "idle",
                        !.last = StLast("written", "none", "none", NoFile)]

\* DataStore.read(reader, lazy) of a well-formed container at "P"
StInit ==
    /\ disk = [l \in Locs |-> IF l = "P" THEN Source ELSE Absent]
    /\ font = NewFont
    /\ stores = [sn \in StoreNames |-> NewStore]
    /\ sv = NoSave
    /\ tmpdir = FALSE
    /\ pre = Snap(disk, font, stores)
    /\ res = "none"
    /\ origin = FALSE
    /\ revived = {}
    /\ ops = 0
    /\ lz = NoLazy
    /\ glyph = NoGlyph
    /\ rd = NoOpen
    /\ \E c \in LzSources, lazy \in BOOLEAN :
          LET d == [l \in Locs |-> IF l = "P" THEN c ELSE Absent]
              st == DS_read(d, "P", LzStore, lazy)
              zero == [k \in StKeys |-> [calls |-> 0, returns |-> 0]] IN
          ds = [on |-> TRUE, lazy |-> lazy, d |-> d, st |-> st, pc |-> "idle",
                saveAs |-> FALSE, todoDel |-> {}, todoWrite |-> <<>>, log |-> <<>>,
                nread |-> zero, n |-> 0,
                last |-> [op |-> "read", k |-> "none", raised |-> "none", ret |-> NoFile,
                          old |-> st, reads |-> zero]]

StNext ==
    /\ UNCHANGED <<disk, font, stores, sv, tmpdir, pre, res, origin, revived, ops, lz, glyph, rd>>
    /\ \/ \E key \in StKeys : StGet(key)
       \/ \E key \in StKeys, val \in Payloads : StSet(key, val)
       \/ \E key \in StKeys : StDel(key)
       \/ \E saveAs \in BOOLEAN : StWriteBegin(saveAs)
       \/ StDeleteStep
       \/ StWriteStep
       \/ StWriteEnd

SpecStore == StInit /\ [][StNext]_vars

\* C17: no key is both in the store (loaded or unloaded) and pending
\* deletion; after store[k] = v, k is in the store with v and not pending;
\* after del store[k] of a key in the store, k is not in the store and is
\* pending; del store[k] of a key not in the store raises KeyError and leaves
\* the entries and the pending set as they were.
C17_PresentPendingExclusion ==
    ds.on =>
       /\ \A key \in StKeys : ~(DictHas(ds.st.data, key) /\ key \in ds.st.sched)
       /\ ds.last.op = "set"
             => /\ DictHas(ds.st.data, ds.last.k)
                /\ DictGet(ds.st.data, ds.last.k) = ds.last.ret
                /\ ds.last.k \notin ds.st.sched
       /\ (ds.last.op = "del" /\ DictHas(ds.last.old.data, ds.last.k))
             => /\ ds.last.raised = "none"
                /\ ~DictHas(ds.st.data, ds.last.k)
                /\ ds.last.k \in ds.st.sched
       /\ (ds.last.op = "del" /\ ~DictHas(ds.last.old.data, ds.last.k))
             => /\ ds.last.raised = "KeyError"
                /\ ds.st.data = ds.last.old.data
                /\ ds.st.sched = ds.last.old.sched

\* a key that was deleted, and is pending, is deleted once more
C17_Witness ==
    /\ ds.on /\ ds.last.op = "del" /\ ds.last.raised = "KeyError"
    /\ ds.last.k \in ds.st.sched
    /\ \E key \in StKeys : Unloaded(ds.st, key)

\* C18 as stated: readf is called at most once for each key, and only while
\* the entry is unloaded; a get of a loaded entry returns the cached payload
\* and does not call readf; a loaded entry never becomes unloaded.
C18_ReadAtMostOnce ==
    ds.on =>
       /\ \A key \in StKeys : ds.nread[key].calls <= 1
       /\ \A key \in StKeys :
             ds.nread[key].calls > ds.last.reads[key].calls => Unloaded(ds.last.old, key)
       /\ (ds.last.op = "get" /\ DictHas(ds.last.old.data, ds.last.k)
              /\ ~Unloaded(ds.last.old, ds.last.k))
             => /\ ds.last.ret = DictGet(ds.last.old.data, ds.last.k)
                /\ ds.nread = ds.last.reads
       /\ \A key \in StKeys :
             (DictHas(ds.last.old.data, key) /\ ~Unloaded(ds.last.old, key))
                => ~Unloaded(ds.st, key)

\* C18, amended: readf returns a payload at most once for each key, and is
\* called only while the entry is unloaded (a call that raises leaves the
\* entry unloaded, and the next get or write calls readf for it again); a get
\* of a loaded entry returns the cached payload and does not call readf; a
\* loaded entry never becomes unloaded.
C18_ReadSucceedsAtMostOnce ==
    ds.on =>
       /\ \A key \in StKeys : ds.nread[key].returns <= 1
       /\ \A key \in StKeys :
             ds.nread[key].calls > ds.last.reads[key].calls
                => /\ Unloaded(ds.last.old, key)
                   /\ ds.nread[key].returns = ds.last.reads[key].returns
                         => Unloaded(ds.st, key)
       /\ (ds.last.op = "get" /\ DictHas(ds.last.old.data, ds.last.k)
              /\ ~Unloaded(ds.last.old, ds.last.k))
             => /\ ds.last.ret = DictGet(ds.last.old.data, ds.last.k)
                /\ ds.nread = ds.last.reads
       /\ \A key \in StKeys :
             (DictHas(ds.last.old.data, key) /\ ~Unloaded(ds.last.old, key))
                => ~Unloaded(ds.st, key)

\* a get returns the payload a write pulled through, after a first get of
\* the key raised
C18_Witness ==
    /\ ds.on /\ ds.lazy /\ ds.last.op = "get" /\ ds.last.raised = "none"
    /\ ds.nread[ds.last.k] = [calls |-> 2, returns |-> 1]
    /\ ds.nread = ds.last.reads
    /\ ds.last.ret = ds.d["P"].files[LzStore][ds.last.k]

\* C26: in a store write with saveAs=False, every key handed to deletef is,
\* at the moment of the call, the key of a file in the container the writer
\* is bound to, whatever sets, deletes and writes (failed ones included) came
\* before.
C26_DeletesTargetExisting ==
    [][(ds.on /\ ds.pc = "write" /\ ~ds.saveAs
          /\ Len(ds'.log) = Len(ds.log) + 1
          /\ ds'.log[Len(ds'.log)].op = "deletef")
          => ds'.log[Len(ds'.log)].k \in DiskKeys(ds.d, StPath, LzStore)]_vars

(***************************************************************************)
(* Font.open, one call on the reader at a time                             *)
(***************************************************************************)
\* Font.read: LayerSet.read, DataSet.read, ImageSet.read, readInfo,
\* readFeatures, readGroups, readKerning, readLib
ReadOrder ==
    <<"layers", "data", "images", "info", "features", "groups", "kerning", "lib">>

\* a Font.open call is running
Opening == rd.pc \in {"read", "end"}

\* Font.open: reader = UFOReader(path, validate=validate), which raises for a
\* path that holds no container
OpenBegin(p, lazy) ==
    /\ Idle /\ ~Opening /\ ops < MaxOps
    /\ \E ok \in BOOLEAN :
          rd' = IF Exists(disk, p) /\ ok
                THEN [pc |-> "read", path |-> p, lazy |-> lazy, idx |-> 1,
                      handle |-> "open", exc |-> "none"]
                ELSE [pc |-> "raised", path |-> p, lazy |-> lazy, idx |-> 1,
                      handle |-> "none", exc |-> "IOError"]
    /\ ops' = ops + 1
    /\ UNCHANGED <<disk, font, stores, sv, tmpdir, pre, res, origin, revived, lz, glyph, ds>>

\* Font.read: the next call on the reader; when it raises, the exception
\* leaves Font.read and Font.open
OpenReadStep ==
    /\ rd.pc = "read"
    /\ \E ok \in BOOLEAN :
          rd' = IF ok
                THEN IF rd.idx < Len(ReadOrder)
                     THEN [rd EXCEPT !.idx = @ + 1]
                     ELSE [rd EXCEPT !.pc = "end"]
                ELSE [rd EXCEPT !.pc = "raised", !.exc = "IOError"]
    /\ UNCHANGED <<disk, font, stores, sv, tmpdir, pre, res, origin, revived, ops, lz,
                   glyph, ds>>

\* Font.open after Font.read: _path, and the reader kept (lazy) or closed
OpenEnd ==
    /\ rd.pc = "end"
    /\ font' = FontOpen(disk, rd.path, rd.lazy)
    /\ stores' = StoresRead(disk, rd.path, rd.lazy)
    /\ pre' = Snap(disk, font', stores')
    /\ origin' = TRUE
    /\ revived' = {}
    /\ rd' = [rd EXCEPT !.pc = "done", !.handle = IF rd.lazy THEN "open" ELSE "closed"]
    /\ UNCHANGED <<disk, sv, tmpdir, res, ops, lz, glyph, ds>>

\* Font.open in steps, deletions from the stores, and Font.save
OpenNext ==
    \/ \E p \in OpenPaths, lazy \in BOOLEAN : OpenBegin(p, lazy)
    \/ OpenReadStep
    \/ OpenEnd
    \/ ~Opening /\ \E sn \in StoreNames : \E key \in KeysOf(sn) : Del(sn, key)
    \/ ~Opening /\ \E arg \in PathArgs \cup {"None"}, fv \in {2, 3}, overwrite \in BOOLEAN :
          SaveBegin(arg, fv, "None", overwrite)
    \/ Reject
    \/ WriterStep
    \/ ScalarStep
    \/ LayersStep
    \/ DeleteStep
    \/ WriteStep
    \/ StoreWriteEnd
    \/ CloseStep
    \/ RemoveStep
    \/ MoveStep
    \/ FinallyStep

SpecOpen == Init /\ [][OpenNext]_vars

\* C20: when Font.open has raised, the reader it acquired (if it got as far
\* as acquiring one) is closed; when Font.open has returned a font read
\* eagerly, the reader is closed; and the writer Font.save acquired is closed
\* when the save is about to return, with or without an error.
C20_GuaranteedRelease ==
    /\ rd.pc = "raised" => rd.handle # "open"
    /\ (rd.pc = "done" /\ ~rd.lazy) => rd.handle = "closed"
    /\ (sv.pc = "finally" /\ sv.writer # "None") => sv.writer = "closed"

(***************************************************************************)
(* The container structure: remembered by Font.open, resolved by Font.save *)
(***************************************************************************)
\* the container at "P" is a package or a zip archive
StructInit ==
    /\ \E s \in Structures :
          disk = [l \in Locs |-> IF l = "P" THEN [Source EXCEPT !.structure = s] ELSE Absent]
    /\ font = NewFont
    /\ stores = [sn \in StoreNames |-> NewStore]
    /\ sv = NoSave
    /\ tmpdir = FALSE
    /\ pre = Snap(disk, font, stores)
    /\ res = "none"
    /\ origin = FALSE
    /\ revived = {}
    /\ ops = 0
    /\ lz = NoLazy
    /\ glyph = NoGlyph
    /\ ds = NoStore
    /\ rd = NoOpen

\* Font.open, deletions from the data store, and Font.save with a structure
\* argument
StructNext ==
    \/ \E p \in OpenPaths, lazy \in BOOLEAN : Open(p, lazy)
    \/ \E key \in KeysOf("data") : Del("data", key)
    \/ \E arg \in OpenPaths \cup {"None"}, structure \in StructureArgs, overwrite \in BOOLEAN :
          SaveBegin(arg, 3, structure, overwrite)
    \/ Reject
    \/ WriterStep
    \/ ScalarStep
    \/ LayersStep
    \/ DeleteStep
    \/ WriteStep
    \/ StoreWriteEnd
    \/ CloseStep
    \/ RemoveStep
    \/ MoveStep
    \/ FinallyStep

SpecStructure == StructInit /\ [][StructNext]_vars

\* C21: the structure Font.save hands to the writer is the member named by
\* the `structure` argument when one is given, whatever the font remembers;
\* else the structure the font was opened with, when it was opened; else
\* none, and the writer then creates a package. A container the writer
\* creates has the structure it was handed.
C21_StructureResolution ==
    Saving =>
       /\ sv.structureArg \in {"zip", "ZIP"} => sv.structure = "ZIP"
       /\ sv.structureArg \in {"package", "PACKAGE"} => sv.structure = "PACKAGE"
       /\ (sv.structureArg = "None" /\ pre.font.fileStructure # "None")
             => sv.structure = pre.font.fileStructure
       /\ (sv.structureArg = "None" /\ pre.font.fileStructure = "None")
             => sv.structure = "None"
       /\ (sv.writer = "open" /\ ~Exists(pre.disk, sv.path))
             => disk[Loc(sv.path)].structure
                   = (IF sv.structure = "None" THEN "PACKAGE" ELSE sv.structure)

\* a font opened from a package is being saved to a fresh path with
\* structure="zip", and the writer has created a zip archive there
C21_Witness ==
    /\ Saving /\ sv.writer = "open" /\ sv.structureArg = "zip"
    /\ pre.font.fileStructure = "PACKAGE"
    /\ ~Exists(pre.disk, sv.path)
    /\ disk[Loc(sv.path)].structure = "ZIP"

\* C27: between calls, when the font remembers a path that holds a container,
\* the structure a save() with no path and no structure argument would hand
\* to the writer is none (the writer then keeps the container's structure) or
\* the structure of that container; so after save(Q, structure=S) a save()
\* in place asks for S.
C27_StructureMatchesPath ==
    (Idle /\ font.path # "None" /\ Exists(disk, font.path))
       => \/ SaveStructure(font, "None") = "None"
          \/ SaveStructure(font, "None") = FileStructure(disk, font.path)

(***************************************************************************)
(* Font.close and the entries not yet loaded                               *)
(***************************************************************************)
\* Font.open(lazy=True), gets, sets and deletes on the stores, Font.close and
\* Font.save
CloseNext ==
    \/ \E p \in OpenPaths : Open(p, TRUE)
    \/ Close
    \/ \E sn \in StoreNames : \E key \in KeysOf(sn) : Get(sn, key)
    \/ \E sn \in StoreNames : \E key \in KeysOf(sn), val \in Payloads : Set(sn, key, val)
    \/ \E sn \in StoreNames : \E key \in KeysOf(sn) : Del(sn, key)
    \/ \E arg \in OpenPaths \cup {"None"}, overwrite \in BOOLEAN :
          SaveBegin(arg, 3, "None", overwrite)
    \/ Reject
    \/ WriterStep
    \/ ScalarStep
    \/ LayersStep
    \/ DeleteStep
    \/ WriteStep
    \/ StoreWriteEnd
    \/ CloseStep
    \/ RemoveStep
    \/ MoveStep
    \/ FinallyStep

SpecClose == Init /\ [][CloseNext]_vars

\* C28: whenever a store holds an entry that is not loaded, the reader the
\* store keeps for it has not been closed by Font.close, so that a get of the
\* key, or the next save, reads from an open reader.
C28_NoClosedPullThrough ==
    \A sn \in StoreNames :
       (\E key \in KeysOf(sn) : Unloaded(stores[sn], key))
          => (stores[sn].reader # "absent" /\ ReaderUsable(font))

====
